---- MODULE Spec2Model ----
(***************************************************************************)
(* Solar feasibility checker: the two evaluation orchestrators.            *)
(*                                                                         *)
(*   app/orchestrator/coordinator.py  Orchestrator (sequential, LLM based) *)
(*   src/orchestrator.py              run_for_address / run_many (asyncio) *)
(*                                                                         *)
(* Three specifications share the module:                                  *)
(*   FusionSpec  build_final_decision and _extract_score as pure functions *)
(*   Spec        Orchestrator.evaluate_address, one agent after another    *)
(*   AsyncSpec   run_many over the asyncio event loop                      *)
(***************************************************************************)
EXTENDS Integers, Sequences, FiniteSets, TLC

VARIABLES
    fusion_in,      \* FusionSpec: the three producer results handed to build_final_decision
    fusion_out,     \* FusionSpec: the record build_final_decision returned
    pc,             \* Spec: evaluate_address is "idle", "running" or "returned"
    address,        \* Spec: the address under evaluation
    agent_state,    \* Spec: each agent's run: "pending", "running" or "returned"
    agent_result,   \* Spec: the dict each agent's run returned
    agent_failed,   \* Spec: the agents whose run took its except arm
    geocode_how,    \* Spec: how geocode_address got its pair in this evaluation
    geocode_cache,  \* Spec: the geocode cache files, by key
    evaluation,     \* Spec: the record evaluate_address returned
    evals,          \* Spec: calls of evaluate_address so far
    previous,       \* Spec: the decision of the call before, if it was for the same address and no agent failed
    addresses,      \* AsyncSpec: the list run_many was called with
    loop_ready,     \* AsyncSpec: the event loop's queue of callbacks
    loop_ntodo,     \* AsyncSpec: callbacks left to run in this iteration
    loop_timers,    \* AsyncSpec: the sleeping tasks, by deadline
    loop_blocked,   \* AsyncSpec: a callback is stuck in a blocking call
    site,           \* AsyncSpec: the run_for_address task of each address
    agent_task,     \* AsyncSpec: the three agent tasks of each address
    done_order,     \* AsyncSpec: the agents of each address, as they finished
    many,           \* AsyncSpec: run_many and its gather
    now,            \* CacheSpec: the clock
    news_file,      \* CacheSpec: the news cache file of the address
    pv_cache,       \* CacheSpec: the PVWatts cache files, by key
    pv_written,     \* CacheSpec: the entry written for each pair of rounded coordinates
    geo_file,       \* CacheSpec: the geocode cache file of the address
    last_call,      \* CacheSpec: the last cached call and what it gave
    race_file,      \* RaceSpec: what the cache file holds
    race_pc,        \* RaceSpec: where each evaluation is in call_pvwatts
    race_seen,      \* RaceSpec: what each evaluation read from the file
    call,           \* ProducerSpec: the producer function called and its inputs
    ret,            \* ProducerSpec: what the call returned
    batch           \* BatchSpec: run_tests: its position, summary and log

fusion_vars == <<fusion_in, fusion_out>>
sync_vars == <<pc, address, agent_state, agent_result, agent_failed, geocode_how,
               geocode_cache, evaluation, evals, previous>>
async_vars == <<addresses, loop_ready, loop_ntodo, loop_timers, loop_blocked,
                site, agent_task, done_order, many>>
cache_vars == <<now, news_file, pv_cache, pv_written, geo_file, last_call>>
race_vars == <<race_file, race_pc, race_seen>>
producer_vars == <<call, ret>>
vars == <<fusion_vars, sync_vars, async_vars, cache_vars, race_vars, producer_vars,
          batch>>
\* what the actions of one specification leave alone
nonfusion_vars == <<sync_vars, async_vars, cache_vars, race_vars, producer_vars, batch>>
nonsync_vars == <<fusion_vars, async_vars, cache_vars, race_vars, producer_vars, batch>>
nonasync_vars == <<fusion_vars, sync_vars, cache_vars, race_vars, producer_vars, batch>>
noncache_vars == <<fusion_vars, sync_vars, async_vars, race_vars, producer_vars, batch>>
nonrace_vars == <<fusion_vars, sync_vars, async_vars, cache_vars, producer_vars, batch>>
nonproducer_vars == <<fusion_vars, sync_vars, async_vars, cache_vars, race_vars, batch>>
nonbatch_vars == <<fusion_vars, sync_vars, async_vars, cache_vars, race_vars,
                   producer_vars>>

(***************************************************************************)
(* Python values as the orchestrator sees them (json.loads output, agent   *)
(* payloads).  Every value is a record [t, v, d]: t the Python type, v an  *)
(* integer payload, d the mapping of a dict (or, for a str, the value its  *)
(* text parses to under json.loads, when it parses).                       *)
(***************************************************************************)
NoFields == [k \in {} |-> 0]

JNull == [t |-> "NoneType", v |-> 0, d |-> NoFields]
JInt(n) == [t |-> "int", v |-> n, d |-> NoFields]
\* a float, in thousandths (72.9 is JFloat(72900))
JFloat(milli) == [t |-> "float", v |-> milli, d |-> NoFields]
\* float('nan'), which json.loads accepts as NaN
JNaN == [t |-> "float_nan", v |-> 0, d |-> NoFields]
JBool(b) == [t |-> "bool", v |-> IF b THEN 1 ELSE 0, d |-> NoFields]
JList == [t |-> "list", v |-> 0, d |-> NoFields]
JDict(f) == [t |-> "dict", v |-> 0, d |-> f]
\* a str that is neither JSON nor an integer literal
JFreeText == [t |-> "str", v |-> 0, d |-> NoFields]
\* a str holding the JSON text of value j (not an integer literal)
JTextOf(j) == [t |-> "str", v |-> 0, d |-> [json |-> j]]
\* a str holding the decimal text of n: json.loads and int() both read n
JIntText(n) == [t |-> "str_int", v |-> n, d |-> [json |-> JInt(n)]]

\* dict.get(key): None when the key is missing
DictGet(cur, key) == IF key \in DOMAIN cur.d THEN cur.d[key] ELSE JNull

\* json.loads(cur) succeeds: cur is a str whose text is JSON
JsonLoadsOk(cur) == cur.t \in {"str", "str_int"} /\ "json" \in DOMAIN cur.d
JsonLoads(cur) == cur.d.json

\* int(cur) succeeds
IntOk(cur) == cur.t \in {"int", "float", "bool", "str_int"}
\* int(cur): a float is truncated toward zero
PyInt(cur) ==
    IF cur.t = "float"
    THEN IF cur.v >= 0 THEN cur.v \div 1000 ELSE -((-cur.v) \div 1000)
    ELSE cur.v

(***************************************************************************)
(* Orchestrator._extract_score(data, path)                                 *)
(***************************************************************************)
FALLBACK_SCORE == 50

\* the for loop over path: [ok |-> FALSE] is the `return 50` of the except arm
RECURSIVE Traverse(_, _)
Traverse(cur, path) ==
    IF path = <<>> THEN [ok |-> TRUE, cur |-> cur]
    ELSE IF cur.t = "dict"
         THEN Traverse(DictGet(cur, Head(path)), Tail(path))
         ELSE IF JsonLoadsOk(cur) /\ JsonLoads(cur).t = "dict"
              THEN Traverse(DictGet(JsonLoads(cur), Head(path)), Tail(path))
              ELSE [ok |-> FALSE, cur |-> cur]

\* mutant of _extract_score: a score that cannot be read counts as 0
_extract_score_ZeroFallback(data, path) ==
    LET w == Traverse(data, path)
    IN  IF ~w.ok THEN 0
        ELSE IF IntOk(w.cur) THEN PyInt(w.cur) ELSE 0

_extract_score(data, path) ==
    LET w == Traverse(data, path)
    IN  IF ~w.ok THEN FALLBACK_SCORE
        ELSE IF IntOk(w.cur) THEN PyInt(w.cur) ELSE FALLBACK_SCORE

(***************************************************************************)
(* IEEE-754 double arithmetic, as far as 0.4*r + 0.3*p + 0.3*d needs it.   *)
(* A double x with |x| < 512 that is a multiple of 2^-54 is held as        *)
(* [neg, m]: m = <<h2, h1, h0>> the magnitude |x| * 2^54 in base 2^21.     *)
(* The constants 0.4 and 0.3 and every product and sum below are such      *)
(* multiples; rounding is to 53 significant bits, ties to even.            *)
(***************************************************************************)
LIMB == 2048 * 1024     \* 2^21

RECURSIVE Pow2(_)
Pow2(n) == IF n = 0 THEN 1 ELSE 2 * Pow2(n - 1)

RECURSIVE BitLen(_)
BitLen(n) == IF n = 0 THEN 0 ELSE 1 + BitLen(n \div 2)

Abs(n) == IF n < 0 THEN -n ELSE n

\* float(0.4) = 7205759403792794 * 2^-54, float(0.3) = 5404319552844595 * 2^-54
W_RESEARCH == [neg |-> FALSE, m |-> <<1638, 838860, 1677722>>]
W_PERMITTING == [neg |-> FALSE, m |-> <<1228, 1677721, 1258291>>]
W_DESIGN == [neg |-> FALSE, m |-> <<1228, 1677721, 1258291>>]

\* carries propagated upward from three unnormalised limbs
Normalise(t2, t1, t0) ==
    LET c0 == t0 \div LIMB
        u1 == t1 + c0
        c1 == u1 \div LIMB
    IN  <<t2 + c1, u1 % LIMB, t0 % LIMB>>

MagLess(a, b) ==
    \/ a[1] < b[1]
    \/ a[1] = b[1] /\ a[2] < b[2]
    \/ a[1] = b[1] /\ a[2] = b[2] /\ a[3] < b[3]

MagAdd(a, b) == Normalise(a[1] + b[1], a[2] + b[2], a[3] + b[3])

\* a - b for a >= b (the borrows are the negative carries of floor division)
MagSub(a, b) == Normalise(a[1] - b[1], a[2] - b[2], a[3] - b[3])

\* the magnitude rounded to 53 significant bits, ties to even
RoundTo53(m) ==
    LET s == BitLen(m[1]) - 11
    IN  IF s <= 0 THEN m
        ELSE LET p == Pow2(s)
                 rem == m[3] % p
                 odd == (m[3] \div p) % 2 = 1
                 up == rem * 2 > p \/ (rem * 2 = p /\ odd)
             IN  Normalise(m[1], m[2], m[3] - rem + (IF up THEN p ELSE 0))

\* w * n for a double w and a Python int n (n converts to a double exactly)
FloatMulInt(w, n) ==
    LET a == Abs(n)
    IN  [neg |-> (n < 0) /= w.neg,
         m |-> RoundTo53(Normalise(w.m[1] * a, w.m[2] * a, w.m[3] * a))]

\* x + y
FloatAdd(x, y) ==
    IF x.neg = y.neg
    THEN [neg |-> x.neg, m |-> RoundTo53(MagAdd(x.m, y.m))]
    ELSE IF MagLess(x.m, y.m)
         THEN [neg |-> y.neg, m |-> RoundTo53(MagSub(y.m, x.m))]
         ELSE [neg |-> x.neg /\ x.m /= y.m, m |-> RoundTo53(MagSub(x.m, y.m))]

\* round(x) of a double: to the nearest integer, an exact half to the even one
PyRound(x) ==
    LET ip == x.m[1] \div 4096
        frac == <<x.m[1] % 4096, x.m[2], x.m[3]>>
        half == <<2048, 0, 0>>
        up == MagLess(half, frac) \/ (frac = half /\ ip % 2 = 1)
        r == ip + (IF up THEN 1 ELSE 0)
    IN  IF x.neg THEN -r ELSE r

\* round(0.4 * r_score + 0.3 * p_score + 0.3 * d_score)
WeightedScore(r_score, p_score, d_score) ==
    PyRound(FloatAdd(FloatAdd(FloatMulInt(W_RESEARCH, r_score),
                              FloatMulInt(W_PERMITTING, p_score)),
                     FloatMulInt(W_DESIGN, d_score)))

(***************************************************************************)
(* Orchestrator.build_final_decision(research, permitting, design)         *)
(***************************************************************************)
GO_THRESHOLD == 65
SCORE_FLOOR == 50

\* mutant of Verdict: the weighted score alone decides, the floors are dropped
Verdict_NoFloor(final_score, r_score, p_score, d_score) ==
    IF final_score >= GO_THRESHOLD THEN "GO" ELSE "NO_GO"

\* the GO / NO_GO rule on the weighted score and the three component scores
Verdict(final_score, r_score, p_score, d_score) ==
    IF /\ final_score >= GO_THRESHOLD
       /\ \A s \in {r_score, p_score, d_score} : s >= SCORE_FLOOR
    THEN "GO" ELSE "NO_GO"

\* mutant of JustificationLine: the line prints the score brought into 0..100
JustificationLine_Clamped(about, score, verdict) ==
    [about |-> about,
     score |-> IF score < 0 THEN 0 ELSE IF score > 100 THEN 100 ELSE score,
     verdict |-> verdict]

\* a justification line: the producer it is about and the numbers it prints
JustificationLine(about, score, verdict) ==
    [about |-> about, score |-> score, verdict |-> verdict]

\* mutant of build_final_decision: the research line repeats the research
\* result as it came
build_final_decision_Verbatim(research, permitting, design) ==
    LET r_score == _extract_score(research, <<"analysis", "score">>)
        p_score == _extract_score(permitting, <<"permit_form", "score">>)
        d_score == _extract_score(design, <<"design", "score">>)
        final_score == WeightedScore(r_score, p_score, d_score)
        go_no_go == Verdict(final_score, r_score, p_score, d_score)
    IN  [go_no_go |-> go_no_go,
         score |-> final_score,
         component_scores |->
             [research |-> r_score, permitting |-> p_score, design |-> d_score],
         justification |->
             <<[about |-> "research", score |-> r_score, verdict |-> "",
                said |-> research],
               JustificationLine("permitting", p_score, ""),
               JustificationLine("design", d_score, ""),
               JustificationLine("overall", final_score, go_no_go)>>]

build_final_decision(research, permitting, design) ==
    LET r_score == _extract_score(research, <<"analysis", "score">>)
        p_score == _extract_score(permitting, <<"permit_form", "score">>)
        d_score == _extract_score(design, <<"design", "score">>)
        final_score == WeightedScore(r_score, p_score, d_score)
        go_no_go == Verdict(final_score, r_score, p_score, d_score)
    IN  [go_no_go |-> go_no_go,
         score |-> final_score,
         component_scores |->
             [research |-> r_score, permitting |-> p_score, design |-> d_score],
         justification |->
             <<JustificationLine("research", r_score, ""),
               JustificationLine("permitting", p_score, ""),
               JustificationLine("design", d_score, ""),
               JustificationLine("overall", final_score, go_no_go)>>]

(***************************************************************************)
(* FusionSpec: build_final_decision called on producer results of every    *)
(* shape.                                                                  *)
(***************************************************************************)
\* integers a "score" field is given in the checks
ScoreInts == {-5, 0, 10, 23, 49, 50, 60, 64, 65, 70, 82, 100, 150}

\* values found under the "score" key
ScoreValues ==
    {JInt(n) : n \in ScoreInts}
        \cup {JFloat(72900), JFloat(-500), JNaN, JNull, JBool(TRUE), JList,
              JIntText(70), JFreeText, JDict(NoFields)}

\* a producer result: a mapping whose key k1 holds the producer's payload
Payload(k1, inner) == JDict([k \in {k1} |-> inner])

\* producer results of every shape, for the producer whose payload key is k1
ResultShapes(k1) ==
    {Payload(k1, JDict([score |-> v])) : v \in ScoreValues}
        \cup {Payload(k1, JTextOf(JDict([score |-> JInt(n)]))) : n \in {30, 150}}
        \cup {JTextOf(Payload(k1, JDict([score |-> JInt(n)]))) : n \in {30, 90}}
        \cup {Payload(k1, JDict(NoFields)), JDict(NoFields),
              Payload(k1, JFreeText), Payload(k1, JList), Payload(k1, JNull),
              Payload(k1, JTextOf(JList)),
              JFreeText, JTextOf(JList), JList, JNull, JInt(7)}

FusionInit ==
    /\ fusion_in \in ResultShapes("analysis") \X ResultShapes("permit_form")
                        \X ResultShapes("design")
    /\ fusion_out = <<>>

FusionOff ==
    /\ fusion_in = <<>>
    /\ fusion_out = <<>>

BuildFinalDecisionCall ==
    /\ fusion_out = <<>>
    /\ fusion_out' = build_final_decision(fusion_in[1], fusion_in[2], fusion_in[3])
    /\ UNCHANGED <<fusion_in, nonfusion_vars>>

(***************************************************************************)
(* The three agents of app/agents, as Orchestrator.evaluate_address runs   *)
(* them.  What the outside world supplies (the LLM's reply, the rules      *)
(* table, the PVWatts outputs, the geocoder's answer, an I/O exception)    *)
(* is an input of the run.  A run returns Return(value) or the exception   *)
(* it raised, Raised.                                                      *)
(***************************************************************************)
Return(value) == [raised |-> FALSE, value |-> value]
Raised == [raised |-> TRUE, value |-> JNull]

\* dict.setdefault(key, val)
SetDefault(f, key, val) == IF key \in DOMAIN f THEN f ELSE f @@ (key :> val)

\* the text f"Error occurred: {e}" / str(e) of a caught exception
ErrorText == [t |-> "str", v |-> 1, d |-> NoFields]
\* a list of n items
JListOf(n) == [t |-> "list", v |-> n, d |-> NoFields]

\* ---- ResearchAgent ----
\* analyze_policy_environment, from the LLM's reply raw (a str)
analyze_policy_environment(raw) ==
    LET analysis ==
            IF JsonLoadsOk(raw) THEN JsonLoads(raw)
            ELSE JDict([summary |-> JFreeText, risks |-> JListOf(1),
                        score |-> JInt(50), sentiment |-> JFreeText])
    IN  IF analysis.t /= "dict" THEN Raised     \* .setdefault: AttributeError
        ELSE Return(JDict(
                 SetDefault(SetDefault(SetDefault(SetDefault(analysis.d,
                     "summary", JFreeText), "risks", JListOf(0)),
                     "score", JInt(50)), "sentiment", JFreeText)))

\* mutant of ResearchFailure: the except arm reports the fallback score 50
ResearchFailure_Score50 ==
    JDict([summary |-> ErrorText, risks |-> JListOf(1),
           score |-> JInt(50), sentiment |-> JFreeText])

\* the analysis of the except arm of ResearchAgent.run
ResearchFailure ==
    JDict([summary |-> ErrorText, risks |-> JListOf(1),
           score |-> JInt(0), sentiment |-> JFreeText])

\* ResearchAgent.run: fault is an exception raised by fetch_news or by the LLM
\* call or the log write of analyze_policy_environment
ResearchAgent_run(fault, raw) ==
    LET a == IF fault THEN Raised ELSE analyze_policy_environment(raw)
    IN  [failed |-> a.raised,
         result |-> JDict([agent |-> JFreeText,
                           news_headlines |-> JListOf(IF a.raised THEN 0 ELSE 1),
                           analysis |-> IF a.raised THEN ResearchFailure
                                        ELSE a.value])]

\* ---- PermittingAgent ----
DEFAULT_REVIEW_DAYS == 10
DEFAULT_FIRE_SETBACK == 18

\* default_rules(city)
default_rules ==
    [building_permit |-> TRUE, electrical_permit |-> TRUE,
     fire_setback |-> DEFAULT_FIRE_SETBACK, avg_review_days |-> DEFAULT_REVIEW_DAYS]

\* a str of n comma-separated permit names
JNames(n) == [t |-> "str_names", v |-> n, d |-> NoFields]

\* _normalize_permit_fields: permit_required becomes a list
_normalize_permit_fields(form) ==
    LET permits == IF "permit_required" \in DOMAIN form THEN form.permit_required
                   ELSE JListOf(0)
        aslist == IF permits.t = "str_names" THEN JListOf(permits.v)
                  ELSE IF permits.t = "list" THEN permits
                  ELSE JListOf(1)
    IN  [k \in DOMAIN form \cup {"permit_required"} |->
            IF k = "permit_required" THEN aslist ELSE form[k]]

\* a number in thousandths
Milli(x) == IF x.t = "float" THEN x.v ELSE 1000 * x.v

\* a value the arithmetic of compute_permit_score accepts
Numeric(x) == x.t \in {"int", "float", "bool"}

\* mutant of compute_permit_score: the result is not brought into 0..100
compute_permit_score_Unclamped(form) ==
    LET days == form.average_review_days
        required == form.permit_required
        setback == form.fire_code_setback_inches
    IN  IF ~(Numeric(days) /\ Numeric(setback) /\ required.t = "list")
        THEN Raised
        ELSE LET over == IF Milli(setback) - 20000 > 0 THEN Milli(setback) - 20000 ELSE 0
                 parts == 400000 - 10 * Milli(days) - 40000 * required.v - 2 * over
             IN  Return(IF parts >= 0 THEN parts \div 4000
                        ELSE -((-parts) \div 4000))

\* compute_permit_score(form), for a form holding the three fields:
\* 100 - days * 2.5 - required * 10 - max(0, setback - 20) * 0.5, counted in
\* parts of 1/4000 (the floats of the checks are multiples of 1/4, on which
\* the double arithmetic is exact); int() truncates toward zero
compute_permit_score(form) ==
    LET days == form.average_review_days
        required == form.permit_required
        setback == form.fire_code_setback_inches
    IN  IF ~(Numeric(days) /\ Numeric(setback) /\ required.t = "list")
        THEN Raised                             \* TypeError
        ELSE LET over == IF Milli(setback) - 20000 > 0 THEN Milli(setback) - 20000 ELSE 0
                 parts == 400000 - 10 * Milli(days) - 40000 * required.v - 2 * over
                 score == IF parts >= 0 THEN parts \div 4000
                          ELSE -((-parts) \div 4000)
                 low == IF score > 100 THEN 100 ELSE score
             IN  Return(IF low < 0 THEN 0 ELSE low)

\* generate_permit_form, from the rules and the LLM's reply raw (a str)
generate_permit_form(rules, raw) ==
    LET nperm == (IF rules.building_permit THEN 1 ELSE 0)
                     + (IF rules.electrical_permit THEN 1 ELSE 0)
        form == IF JsonLoadsOk(raw) THEN JsonLoads(raw)
                ELSE JDict([permit_required |-> JListOf(IF nperm = 0 THEN 1 ELSE nperm),
                            fire_code_setback_inches |-> JInt(rules.fire_setback),
                            average_review_days |-> JInt(rules.avg_review_days),
                            special_considerations |-> JFreeText])
    IN  IF form.t /= "dict" THEN Raised         \* .get: AttributeError
        ELSE LET filled ==
                     SetDefault(SetDefault(SetDefault(SetDefault(
                         _normalize_permit_fields(form.d),
                         "permit_required", JListOf(1)),
                         "fire_code_setback_inches", JInt(DEFAULT_FIRE_SETBACK)),
                         "average_review_days", JInt(DEFAULT_REVIEW_DAYS)),
                         "special_considerations", JFreeText)
                 score == compute_permit_score(filled)
             IN  IF score.raised THEN Raised
                 ELSE Return(JDict(
                          [k \in DOMAIN filled \cup {"score", "friendly_notes"} |->
                              IF k = "score" THEN JInt(score.value)
                              ELSE IF k = "friendly_notes" THEN JFreeText
                              ELSE filled[k]]))

\* the permit_form of the except arm of PermittingAgent.run
PermittingFailure ==
    JDict([summary |-> ErrorText, score |-> JInt(0),
           special_considerations |-> JFreeText])

\* PermittingAgent.run: fault is an exception raised by get_rules_for_location
\* or by the LLM call or the log write of generate_permit_form
PermittingAgent_run(fault, rules, raw) ==
    LET f == IF fault THEN Raised ELSE generate_permit_form(rules, raw)
    IN  [failed |-> f.raised,
         result |-> JDict([agent |-> JFreeText,
                           permit_form |-> IF f.raised THEN PermittingFailure
                                           ELSE f.value])]

\* ---- geocode_address ----
\* the fallback coordinates (Phoenix, AZ), in 1/10000 degree
PHOENIX_LAT == 334484
PHOENIX_LON == -1120740

Coords(lat, lon) == [lat |-> lat, lon |-> lon]

\* a cache file: absent, valid (holding coords) or unreadable
CacheAbsent == [state |-> "absent", coords |-> Coords(0, 0)]
CacheCorrupt == [state |-> "corrupt", coords |-> Coords(0, 0)]
CacheValid(c) == [state |-> "valid", coords |-> c]

\* the geocoder's answer: a match at coords, no match, or a failed request
LookupMatch(c) == [kind |-> "match", coords |-> c]
LookupEmpty == [kind |-> "empty", coords |-> Coords(0, 0)]
LookupError == [kind |-> "error", coords |-> Coords(0, 0)]

\* mutant of geocode_address: the Phoenix default is stored like a match
geocode_address_StoresDefault(entry, lookup) ==
    IF entry.state = "valid"
    THEN [coords |-> entry.coords, entry |-> entry, how |-> "cached"]
    ELSE IF lookup.kind = "match"
         THEN [coords |-> lookup.coords, entry |-> CacheValid(lookup.coords),
               how |-> "found"]
         ELSE [coords |-> Coords(PHOENIX_LAT, PHOENIX_LON),
               entry |-> CacheValid(Coords(PHOENIX_LAT, PHOENIX_LON)),
               how |-> "failed"]

\* geocode_address, given the cache file of the address and the geocoder's
\* answer: the pair returned, the cache file afterwards, and how it was got
geocode_address(entry, lookup) ==
    IF entry.state = "valid"
    THEN [coords |-> entry.coords, entry |-> entry, how |-> "cached"]
    ELSE IF lookup.kind = "match"
         THEN [coords |-> lookup.coords, entry |-> CacheValid(lookup.coords),
               how |-> "found"]
         ELSE [coords |-> Coords(PHOENIX_LAT, PHOENIX_LON), entry |-> entry,
               how |-> "failed"]

\* ---- DesignAgent ----
\* a / b rounded to the nearest integer (a >= 0, b > 0)
RoundDiv(a, b) ==
    LET q == a \div b
        r2 == 2 * (a % b)
    IN  IF r2 > b \/ (r2 = b /\ q % 2 = 1) THEN q + 1 ELSE q

\* x < 1000 and x > 0.08 for a number x; not Comparable: TypeError
Comparable(x) == x.t \in {"int", "float", "bool"}
BelowYieldMark(x) == Milli(x) < 1000 * 1000
AboveLcoeMark(x) == Milli(x) > 80

\* the parsed dict of the fallback arm of analyze_design_with_llm, from the
\* PVWatts outputs (capacity in kW, ac_annual in kWh)
DesignFallback(outputs) ==
    LET cap == outputs.capacity
        prod == outputs.ac_annual
    IN  IF cap = 0 \/ prod = 0 THEN Raised      \* ZeroDivisionError
        ELSE Return(JDict(
                 [system_capacity_kwdc |-> JInt(cap),
                  annual_production_kwh |-> JInt(prod),
                  specific_yield_kwh_per_kw |-> JFloat(10 * RoundDiv(100 * prod, cap)),
                  estimated_LCOE_usd_per_kWh |-> JFloat(RoundDiv(48000 * cap, prod))]))

\* mutant of analyze_design_with_llm: a score in the reply is kept
analyze_design_with_llm_KeepScore(outputs, raw) ==
    LET p == IF JsonLoadsOk(raw) THEN Return(JsonLoads(raw))
             ELSE DesignFallback(outputs)
    IN  IF p.raised \/ p.value.t /= "dict" THEN Raised
        ELSE LET parsed == p.value.d
                 yield == IF "specific_yield_kwh_per_kw" \in DOMAIN parsed
                          THEN parsed.specific_yield_kwh_per_kw ELSE JInt(0)
                 lcoe == IF "estimated_LCOE_usd_per_kWh" \in DOMAIN parsed
                         THEN parsed.estimated_LCOE_usd_per_kWh ELSE JInt(0)
             IN  IF ~(Comparable(yield) /\ Comparable(lcoe)) THEN Raised
                 ELSE LET score == 100 - (IF BelowYieldMark(yield) THEN 20 ELSE 0)
                                       - (IF AboveLcoeMark(lcoe) THEN 15 ELSE 0)
                      IN  Return(JDict(
                              [k \in DOMAIN parsed \cup {"score"} |->
                                  IF k = "score" /\ k \notin DOMAIN parsed THEN JInt(score)
                                  ELSE parsed[k]]))

\* analyze_design_with_llm, from the PVWatts outputs and the LLM's reply raw
analyze_design_with_llm(outputs, raw) ==
    LET p == IF JsonLoadsOk(raw) THEN Return(JsonLoads(raw))
             ELSE DesignFallback(outputs)
    IN  IF p.raised \/ p.value.t /= "dict" THEN Raised
        ELSE LET parsed == p.value.d
                 yield == IF "specific_yield_kwh_per_kw" \in DOMAIN parsed
                          THEN parsed.specific_yield_kwh_per_kw ELSE JInt(0)
                 lcoe == IF "estimated_LCOE_usd_per_kWh" \in DOMAIN parsed
                         THEN parsed.estimated_LCOE_usd_per_kWh ELSE JInt(0)
             IN  IF ~(Comparable(yield) /\ Comparable(lcoe)) THEN Raised
                 ELSE LET score == 100 - (IF BelowYieldMark(yield) THEN 20 ELSE 0)
                                       - (IF AboveLcoeMark(lcoe) THEN 15 ELSE 0)
                      IN  Return(JDict(
                              [k \in DOMAIN parsed \cup {"score"} |->
                                  IF k = "score" THEN JInt(score) ELSE parsed[k]]))

\* the design of the except arm of DesignAgent.run
DesignFailure == JDict([error |-> ErrorText, score |-> JInt(0)])

\* DesignAgent.run, given the coordinates geocode_address returned: fault is an
\* exception raised by call_pvwatts or by the LLM call or the log write
DesignAgent_run(fault, coords, outputs, raw) ==
    LET a == IF fault \/ coords.lat = 0 \/ coords.lon = 0 THEN Raised
             ELSE analyze_design_with_llm(outputs, raw)
    IN  [failed |-> a.raised,
         result |-> JDict([agent |-> JFreeText,
                           pvwatts_raw |->
                               IF a.raised THEN JDict(NoFields)
                               ELSE JDict([capacity |-> JInt(outputs.capacity),
                                           ac_annual |-> JInt(outputs.ac_annual)]),
                           design |-> IF a.raised THEN DesignFailure ELSE a.value])]

(***************************************************************************)
(* Spec: Orchestrator.evaluate_address, called up to MaxEvals times on one *)
(* Orchestrator.                                                           *)
(***************************************************************************)
MaxEvals == 2

Agents == {"research", "permitting", "design"}
\* the order in which evaluate_address calls the agents
AgentOrder == <<"research", "permitting", "design">>
\* the key of each agent's result that holds its payload
PayloadKey == [research |-> "analysis", permitting |-> "permit_form",
               design |-> "design"]

Addresses == {"Austin, TX", "austin, tx", "???"}
\* address.lower(), which the cache key is the MD5 of
Lower(a) == IF a = "Austin, TX" THEN "austin, tx" ELSE a
CacheKeys == {Lower(a) : a \in Addresses}

\* what the LLM replies to the research prompt
ResearchReplies ==
    {JFreeText, JTextOf(JListOf(0)), JTextOf(JDict(NoFields))}
        \cup {JTextOf(JDict([score |-> v])) :
                v \in {JInt(-5), JInt(40), JInt(82), JInt(100), JInt(150),
                       JFloat(72900), JNull}}

\* rows of permitting_rules.csv, and the default rules
RuleSets ==
    {default_rules,
     [building_permit |-> TRUE, electrical_permit |-> FALSE,
      fire_setback |-> 36, avg_review_days |-> 30]}

\* what the LLM replies to the permit form prompt
PermitReplies ==
    {JFreeText, JTextOf(JListOf(0)), JTextOf(JDict(NoFields)),
     JTextOf(JDict([permit_required |-> JNames(2),
                    average_review_days |-> JInt(5),
                    fire_code_setback_inches |-> JInt(18)])),
     JTextOf(JDict([average_review_days |-> JFreeText]))}

\* what the geocoder answers
GeoLookups ==
    {LookupMatch(Coords(302672, -977431)), LookupMatch(Coords(0, 515000)),
     LookupEmpty, LookupError}

\* the outputs call_pvwatts returns
PvOutputs ==
    {[capacity |-> 50, ac_annual |-> 75000], [capacity |-> 50, ac_annual |-> 40000],
     [capacity |-> 50, ac_annual |-> 20000], [capacity |-> 50, ac_annual |-> 0]}

\* what the LLM replies to the design prompt
DesignReplies ==
    {JFreeText, JTextOf(JListOf(0)), JTextOf(JDict(NoFields)),
     JTextOf(JDict([specific_yield_kwh_per_kw |-> JNull]))}
        \cup {JTextOf(JDict([specific_yield_kwh_per_kw |-> JInt(y),
                             estimated_LCOE_usd_per_kWh |-> JFloat(l),
                             score |-> JInt(5)])) :
                y \in {800, 1500}, l \in {32, 120}}

SyncInit ==
    /\ pc = "idle"
    /\ address = ""
    /\ agent_state = [k \in Agents |-> "pending"]
    /\ agent_result = [k \in Agents |-> JNull]
    /\ agent_failed = {}
    /\ geocode_how = "none"
    /\ geocode_cache \in [CacheKeys -> {CacheAbsent, CacheCorrupt}]
    /\ evaluation = <<>>
    /\ evals = 0
    /\ previous = "none"

SyncOff ==
    /\ pc = "idle"
    /\ address = ""
    /\ agent_state = [k \in Agents |-> "pending"]
    /\ agent_result = [k \in Agents |-> JNull]
    /\ agent_failed = {}
    /\ geocode_how = "none"
    /\ geocode_cache = [k \in CacheKeys |-> CacheAbsent]
    /\ evaluation = <<>>
    /\ evals = 0
    /\ previous = "none"

\* evaluate_address(a) is called
EvaluateAddress(a) ==
    /\ pc \in {"idle", "returned"}
    /\ evals < MaxEvals
    /\ pc' = "running"
    /\ address' = a
    /\ agent_state' = [k \in Agents |-> "pending"]
    /\ agent_result' = [k \in Agents |-> JNull]
    /\ agent_failed' = {}
    /\ geocode_how' = "none"
    /\ evaluation' = <<>>
    /\ evals' = evals + 1
    /\ previous' = IF pc = "returned" /\ address = a /\ agent_failed = {}
                   THEN evaluation.final_decision.go_no_go ELSE "none"
    /\ UNCHANGED <<geocode_cache, nonsync_vars>>

\* the agents before agent number i have returned
EarlierReturned(i) == \A j \in 1..(i - 1) : agent_state[AgentOrder[j]] = "returned"

\* evaluate_address calls self.<agent>.run(address): the i-th statement
AgentCall(i) ==
    /\ pc = "running"
    /\ EarlierReturned(i)
    /\ agent_state[AgentOrder[i]] = "pending"
    /\ agent_state' = [agent_state EXCEPT ![AgentOrder[i]] = "running"]
    /\ UNCHANGED <<pc, address, agent_result, agent_failed, geocode_how,
                   geocode_cache, evaluation, evals, previous, nonsync_vars>>

\* the run of agent k returns r (r.failed: by its except arm)
AgentReturned(k, r) ==
    /\ agent_state' = [agent_state EXCEPT ![k] = "returned"]
    /\ agent_result' = [agent_result EXCEPT ![k] = r.result]
    /\ agent_failed' = IF r.failed THEN agent_failed \cup {k} ELSE agent_failed

ResearchReturn ==
    /\ agent_state["research"] = "running"
    /\ \E fault \in BOOLEAN, raw \in ResearchReplies :
           AgentReturned("research", ResearchAgent_run(fault, raw))
    /\ UNCHANGED <<pc, address, geocode_how, geocode_cache, evaluation, evals,
                   previous, nonsync_vars>>

PermittingReturn ==
    /\ agent_state["permitting"] = "running"
    /\ \E fault \in BOOLEAN, rules \in RuleSets, raw \in PermitReplies :
           AgentReturned("permitting", PermittingAgent_run(fault, rules, raw))
    /\ UNCHANGED <<pc, address, geocode_how, geocode_cache, evaluation, evals,
                   previous, nonsync_vars>>

DesignReturn ==
    /\ agent_state["design"] = "running"
    /\ \E fault \in BOOLEAN, lookup \in GeoLookups, outputs \in PvOutputs,
          raw \in DesignReplies :
           LET g == geocode_address(geocode_cache[Lower(address)], lookup)
           IN  /\ AgentReturned("design",
                                DesignAgent_run(fault, g.coords, outputs, raw))
               /\ geocode_how' = g.how
               /\ geocode_cache' = [geocode_cache EXCEPT ![Lower(address)] = g.entry]
    /\ UNCHANGED <<pc, address, evaluation, evals, previous, nonsync_vars>>

\* build_final_decision and the return statement of evaluate_address
EvaluateReturn ==
    /\ pc = "running"
    /\ \A k \in Agents : agent_state[k] = "returned"
    /\ evaluation' =
           [address |-> address,
            research |-> agent_result["research"],
            permitting |-> agent_result["permitting"],
            design |-> agent_result["design"],
            final_decision |->
                build_final_decision(agent_result["research"],
                                     agent_result["permitting"],
                                     agent_result["design"])]
    /\ pc' = "returned"
    /\ UNCHANGED <<address, agent_state, agent_result, agent_failed, geocode_how,
                   geocode_cache, evals, previous, nonsync_vars>>

(***************************************************************************)
(* The asynchronous orchestrator, src/orchestrator.py, with its agents     *)
(* (src/agents) and address parser (src/utils/geo.py).                     *)
(*                                                                         *)
(* A str whose characters matter (an address, a city) is the sequence of   *)
(* its characters.                                                         *)
(***************************************************************************)
LETTERS ==
    {"A", "B", "C", "D", "E", "F", "G", "H", "I", "J", "K", "L", "M", "N",
     "O", "P", "Q", "R", "S", "T", "U", "V", "W", "X", "Y", "Z", "a", "b",
     "c", "d", "e", "f", "g", "h", "i", "j", "k", "l", "m", "n", "o", "p",
     "q", "r", "s", "t", "u", "v", "w", "x", "y", "z"}
DIGITS == {"0", "1", "2", "3", "4", "5", "6", "7", "8", "9"}
\* \s and \w of the re module, and "." (anything but a newline)
IsSpace(c) == c \in {" ", "\t", "\n"}
IsWord(c) == c \in LETTERS \cup DIGITS \cup {"_"}
IsDot(c) == c /= "\n"

\* str.strip()
RECURSIVE LStrip(_)
LStrip(s) == IF s /= <<>> /\ IsSpace(Head(s)) THEN LStrip(Tail(s)) ELSE s
RECURSIVE RStrip(_)
RStrip(s) ==
    IF s /= <<>> /\ IsSpace(s[Len(s)]) THEN RStrip(SubSeq(s, 1, Len(s) - 1)) ELSE s
Strip(s) == RStrip(LStrip(s))

\* s.split(",")
RECURSIVE Split(_)
Split(s) ==
    IF \A j \in 1..Len(s) : s[j] /= "," THEN <<s>>
    ELSE LET i == CHOOSE j \in 1..Len(s) :
                      s[j] = "," /\ \A k \in 1..(j - 1) : s[k] /= ","
         IN  <<SubSeq(s, 1, i - 1)>> \o Split(SubSeq(s, i + 1, Len(s)))

\* phrase in text
Contains(phrase, text) ==
    \E i \in 0..(Len(text) - Len(phrase)) :
        SubSeq(text, i + 1, i + Len(phrase)) = phrase

\* validate_address_format: re.match(r"^.+,\s*[\w\s]+,\s*[A-Z]{2}$",
\* address.strip(), re.IGNORECASE); i and j are the places of the two commas
\* of the pattern
validate_address_format(addr) ==
    LET s == Strip(addr)
        n == Len(s)
    IN  \E i \in 2..n, j \in 3..n :
            /\ i < j
            /\ s[i] = ","
            /\ s[j] = ","
            /\ \A k \in 1..(i - 1) : IsDot(s[k])
            /\ j - i >= 2
            /\ \A k \in (i + 1)..(j - 1) : IsWord(s[k]) \/ IsSpace(s[k])
            /\ n - j >= 2
            /\ \A k \in (j + 1)..(n - 2) : IsSpace(s[k])
            /\ s[n - 1] \in LETTERS
            /\ s[n] \in LETTERS

\* parse_jurisdiction_from_address: ok is FALSE when it raises ValueError
parse_jurisdiction_from_address(addr) ==
    LET s == Strip(addr)
        pieces == Split(s)
        stripped == [k \in 1..Len(pieces) |-> Strip(pieces[k])]
        NonEmpty(p) == p /= <<>>
        parts == SelectSeq(stripped, NonEmpty)
    IN  IF ~validate_address_format(s) \/ Len(parts) < 3
        THEN [ok |-> FALSE, city |-> <<>>, state |-> <<>>]
        ELSE [ok |-> TRUE, city |-> parts[Len(parts) - 1],
              state |-> parts[Len(parts)]]

\* ---- src/agents: what a run returns, from the data file it reads ----
\* a data file that cannot be read or lacks what the agent indexes
FileBad == [file |-> "bad"]
\* an entry of a JSON table: absent, or a dict with the keys in fields
NoEntry == [present |-> FALSE, fields |-> {}, sentiment |-> "", items |-> 0]
Entry(fields, sentiment, items) ==
    [present |-> TRUE, fields |-> fields, sentiment |-> sentiment, items |-> items]
\* bool(rule) of a looked-up rule: None and {} are falsy
Truthy(rule) == rule.present /\ rule.fields /= {}

\* the text after "{city}, {state}" in the three rationales
RATIONALE_FAVORABLE == " shows favorable policy signals for solar deployment."
RATIONALE_NEUTRAL == " shows no clear policy signals - assuming neutral environment."
RATIONALE_RESTRICTIVE == " shows restrictive or uncertain solar policy trends."

\* ResearchAgent.run after its sleep: policies is dummy_policy_data.json, with
\* its entry for "{city}, {state}" (keyed) and its DEFAULT entry
research_run(addr, city, state, policies) ==
    IF policies.file = "bad" THEN Raised                \* OSError, JSONDecodeError
    ELSE LET entry == IF policies.keyed.present THEN policies.keyed
                      ELSE policies.default
         IN  IF ~entry.present THEN Raised              \* KeyError: 'DEFAULT'
             ELSE IF {"sentiment", "headlines"} \ entry.fields /= {}
             THEN Raised                                \* KeyError
             ELSE Return(
                 [model |-> "ResearchResult",
                  address |-> addr,
                  favorable_policy |-> entry.sentiment = "positive",
                  rationale |->
                      [city |-> city, state |-> state,
                       text |-> IF entry.sentiment = "positive"
                                THEN RATIONALE_FAVORABLE
                                ELSE IF entry.sentiment = "neutral"
                                THEN RATIONALE_NEUTRAL
                                ELSE RATIONALE_RESTRICTIVE],
                  findings |-> entry.items])

\* PermittingAgent._checklist_for_jurisdiction: rules is dummy_permit_rules.json
\* with its entries for "{city}, {state}" (exact), "{city}" (city) and DEFAULT.
\* The value is the number of checklist items, or -1 for None.
_checklist_for_jurisdiction(rules) ==
    LET rule == IF rules.exact.present THEN rules.exact
                ELSE IF Truthy(rules.city) THEN rules.city
                ELSE rules.default
    IN  IF ~Truthy(rule) THEN Return(-1)
        ELSE IF "required_documents" \notin rule.fields THEN Raised   \* KeyError
        ELSE Return(rule.items)

READINESS_WITH_FORM == 80

\* PermittingAgent.run
permitting_run(addr, jurisdiction, rules) ==
    IF rules.file = "bad" THEN Raised
    ELSE LET checklist == _checklist_for_jurisdiction(rules)
         IN  IF checklist.raised THEN Raised
             ELSE IF checklist.value = -1
             THEN Return([model |-> "PermittingResult",
                          address |-> addr,
                          jurisdiction |-> jurisdiction,
                          form |-> [present |-> FALSE, checklist |-> 0],
                          readiness_score |-> 0,
                          blockers |-> 1])
             ELSE Return([model |-> "PermittingResult",
                          address |-> addr,
                          jurisdiction |-> jurisdiction,
                          form |-> [present |-> TRUE, checklist |-> checklist.value],
                          readiness_score |-> READINESS_WITH_FORM,
                          blockers |-> 0])

DEFAULT_PANEL_W == 410
ROOF_AREA == 80
\* the performance ratio PR = 0.8, in tenths
PR_TENTHS == 8

\* DesignAgent._generate_bom: the number of items
_generate_bom(capacity) == IF capacity <= 0 THEN 0 ELSE 3

\* DesignAgent.run: irradiance is mock_solar_irradiance.csv with the GHI of
\* its row for the city and state (ghi, or -1 without such a row).
\* capacity_kw is in hundredths of a kW.
design_run(addr, irradiance) ==
    IF irradiance.file = "bad" THEN Raised
    ELSE IF irradiance.ghi = -1
    THEN Return([model |-> "DesignResult", address |-> addr,
                 capacity_kw |-> 0, annual_kwh |-> 0, bom |-> 0,
                 assumptions |-> [error |-> "No irradiance data available"]])
    ELSE LET n_mod == (ROOF_AREA * 6) \div (10 * 2)
             dc_kw == RoundDiv(n_mod * DEFAULT_PANEL_W, 10)
             annual_kwh == RoundDiv(dc_kw * irradiance.ghi * PR_TENTHS, 1000)
         IN  Return([model |-> "DesignResult", address |-> addr,
                     capacity_kw |-> dc_kw, annual_kwh |-> annual_kwh,
                     bom |-> _generate_bom(dc_kw),
                     assumptions |-> [ghi_kwh_m2_yr |-> irradiance.ghi,
                                      modules |-> n_mod]])

\* ---- run_for_address: scores and bundle ----
NO_DATA_PHRASE ==
    <<"N", "o", " ", "r", "e", "l", "i", "a", "b", "l", "e", " ", "p", "o",
    "l", "i", "c", "y", " ", "d", "a", "t", "a">>

\* "No reliable policy data" in rationale: none of the three texts holds the
\* phrase, and it has no comma, so it can only lie in the city
MentionsNoData(rationale) ==
    Contains(NO_DATA_PHRASE, rationale.city \o <<",", " ">> \o rationale.state)

\* scores are in tenths of a point
RESEARCH_FAVORABLE == 900
RESEARCH_NO_DATA == 200
RESEARCH_UNFAVORABLE == 400
DESIGN_NO_CAPACITY == 200
DESIGN_CAP == 1000
GO_COMPOSITE == 700

research_score(research_result) ==
    IF ~research_result.favorable_policy
    THEN IF MentionsNoData(research_result.rationale) THEN RESEARCH_NO_DATA
         ELSE RESEARCH_UNFAVORABLE
    ELSE RESEARCH_FAVORABLE

permit_score(permit_result) ==
    IF ~permit_result.form.present \/ permit_result.readiness_score = 0 THEN 0
    ELSE 10 * permit_result.readiness_score

\* min(capacity_kw * 10, 100)
design_score(design_result) ==
    IF design_result.capacity_kw = 0 THEN DESIGN_NO_CAPACITY
    ELSE IF design_result.capacity_kw < DESIGN_CAP THEN design_result.capacity_kw
    ELSE DESIGN_CAP

\* mutant of composite_score: the strongest of the three scores
composite_score_Strongest(rs, ps, ds) ==
    IF rs >= ps /\ rs >= ds THEN rs ELSE IF ps >= ds THEN ps ELSE ds

\* round(0.4 * research + 0.3 * permitting + 0.3 * design, 1)
composite_score(rs, ps, ds) == RoundDiv(4 * rs + 3 * ps + 3 * ds, 10)

\* model_dump(): the fields of a result
model_dump(result) == [f \in DOMAIN result \ {"model"} |-> result[f]]

\* the fields of a SiteBundle, in the order of their declaration (the order
\* in which the object yields them when it is unpacked)
SiteBundleFields == <<"address", "score", "decision", "summary", "results">>

\* mutant of InvalidBundle: the rejected address is reported as a "NO-GO"
InvalidBundle_NoGo(addr) ==
    [address |-> addr, score |-> 0, decision |-> "NO-GO",
     summary |-> <<[line |-> "invalid_format", address |-> addr]>>,
     results |-> <<>>]

\* the SiteBundle of an address that parse_jurisdiction_from_address rejects
InvalidBundle(addr) ==
    [address |-> addr, score |-> 0, decision |-> "INVALID",
     summary |-> <<[line |-> "invalid_format", address |-> addr]>>,
     results |-> <<>>]

\* steps 4 to 9 of run_for_address, from the three results of the gather
SiteBundleOf(addr, research_result, permit_result, design_result) ==
    LET rs == research_score(research_result)
        ps == permit_score(permit_result)
        ds == design_score(design_result)
        composite == composite_score(rs, ps, ds)
        summary_lines ==
            <<[line |-> "research", rationale |-> research_result.rationale],
              IF permit_result.readiness_score > 0
              THEN [line |-> "permitting",
                    jurisdiction |-> permit_result.jurisdiction,
                    readiness_score |-> permit_result.readiness_score]
              ELSE [line |-> "permitting_no_data",
                    jurisdiction |-> permit_result.jurisdiction],
              [line |-> "design", capacity_kw |-> design_result.capacity_kw,
               annual_kwh |-> design_result.annual_kwh],
              [line |-> "bom", items |-> design_result.bom],
              [line |-> "breakdown", research |-> rs, permitting |-> ps,
               design |-> ds, composite |-> composite]>>
        warn == /\ composite < GO_COMPOSITE
                /\ \/ MentionsNoData(research_result.rationale)
                   \/ ~permit_result.form.present
                   \/ design_result.bom = 0
    IN  [address |-> addr,
         score |-> composite,
         decision |-> IF composite >= GO_COMPOSITE THEN "GO" ELSE "NO-GO",
         summary |-> IF warn THEN <<[line |-> "warning"]>> \o summary_lines
                     ELSE summary_lines,
         results |-> <<model_dump(research_result), model_dump(permit_result),
                       model_dump(design_result)>>]

(***************************************************************************)
(* AsyncSpec: asyncio.run(run_many(addresses)), src/orchestrator.py.       *)
(*                                                                         *)
(* The event loop runs callbacks one at a time from its FIFO queue         *)
(* (loop_ready).  One iteration moves the timers that expired to the queue *)
(* and then runs the callbacks that were queued when it began (loop_ntodo).*)
(* A task created by gather is queued when it is created; a task or future *)
(* that finishes queues its done callbacks; asyncio.sleep finishes when    *)
(* its timer callback runs.  A coroutine runs without interruption up to   *)
(* its next await.                                                         *)
(***************************************************************************)
ADDR_PHOENIX ==
    <<"1", " ", "S", "u", "n", ",", " ", "P", "h", "o", "e", "n", "i", "x",
    ",", " ", "A", "Z">>
ADDR_NO_DATA_CITY ==
    <<"9", " ", "E", "l", "m", ",", " ", "N", "o", " ", "r", "e", "l", "i",
    "a", "b", "l", "e", " ", "p", "o", "l", "i", "c", "y", " ", "d", "a",
    "t", "a", ",", " ", "A", "Z">>
ADDR_GARBAGE ==
    <<"?", "?", "?">>
ADDR_NO_CITY ==
    <<"x", ",", " ", ",", "A", "Z">>
SampleAddresses == {ADDR_PHOENIX, ADDR_NO_DATA_CITY, ADDR_GARBAGE, ADDR_NO_CITY}
\* the lists run_many is called with
AddressLists ==
    {<<>>} \cup {<<a>> : a \in SampleAddresses}
           \cup {<<a, b>> : a \in SampleAddresses, b \in SampleAddresses}

\* dummy_policy_data.json as ResearchAgent.run finds it
PolicyEntries ==
    {Entry({"sentiment", "headlines"}, s, 2) : s \in {"positive", "neutral", "negative"}}
        \cup {Entry({"headlines"}, "", 2)}
PolicyFiles ==
    {FileBad} \cup {[file |-> "ok", keyed |-> k, default |-> d] :
                       k \in PolicyEntries \cup {NoEntry},
                       d \in PolicyEntries \cup {NoEntry}}
\* dummy_permit_rules.json as PermittingAgent.run finds it
RuleEntries ==
    {NoEntry, Entry({}, "", 0), Entry({"required_documents"}, "", 3),
     Entry({"notes"}, "", 0)}
RuleFiles ==
    {FileBad} \cup {[file |-> "ok", exact |-> e, city |-> c, default |-> d] :
                       e \in RuleEntries, c \in RuleEntries, d \in RuleEntries}
\* mock_solar_irradiance.csv as DesignAgent.run finds it
IrradianceFiles ==
    {FileBad} \cup {[file |-> "ok", ghi |-> g] : g \in {-1, 1850, 2100}}

NoResult == [model |-> "None"]
NoBundle ==
    [address |-> <<>>, score |-> 0, decision |-> "", summary |-> <<>>,
     results |-> <<>>]

\* a callback in the queue of the event loop
Cb(kind, i, a) == [kind |-> kind, i |-> i, a |-> a]

AsyncInit ==
    /\ addresses \in AddressLists
    /\ loop_ready = <<Cb("run_many", 0, "")>>
    /\ loop_ntodo = 0
    /\ loop_timers = <<>>
    /\ loop_blocked = FALSE
    /\ site = [i \in 1..Len(addresses) |->
                  [pc |-> "none", constructed |-> FALSE, nfinished |-> 0,
                   gather |-> "none", bundle |-> NoBundle]]
    /\ agent_task = [i \in 1..Len(addresses) |->
                        [a \in Agents |-> [state |-> "none", result |-> NoResult]]]
    /\ done_order = [i \in 1..Len(addresses) |-> <<>>]
    /\ many = [pc |-> "scheduled", nfinished |-> 0, gather |-> "none",
               result |-> <<>>]

AsyncOff ==
    /\ addresses = <<>>
    /\ loop_ready = <<>>
    /\ loop_ntodo = 0
    /\ loop_timers = <<>>
    /\ loop_blocked = FALSE
    /\ site = <<>>
    /\ agent_task = <<>>
    /\ done_order = <<>>
    /\ many = [pc |-> "off", nfinished |-> 0, gather |-> "none", result |-> <<>>]

\* run_many has not finished (asyncio.run stops the loop and cancels what is
\* left when it has) and no callback is stuck
LoopRunning == ~loop_blocked /\ many.pc \in {"scheduled", "gathering"}

\* BaseEventLoop._run_once: the timers that expired are queued, in the order of
\* their deadlines; with an empty queue the loop waits for the first timer
RunOnce ==
    /\ LoopRunning
    /\ loop_ntodo = 0
    /\ loop_ready /= <<>> \/ loop_timers /= <<>>
    /\ \E n \in (IF loop_ready = <<>> THEN 1 ELSE 0)..Len(loop_timers) :
           /\ loop_ready' = loop_ready \o
                  [k \in 1..n |-> Cb("timer", loop_timers[k], "research")]
           /\ loop_timers' = SubSeq(loop_timers, n + 1, Len(loop_timers))
           /\ loop_ntodo' = Len(loop_ready) + n
    /\ UNCHANGED <<addresses, loop_blocked, site, agent_task, done_order, many,
                   nonasync_vars>>

\* the loop runs the callback at the head of its queue, of the given kind
Handle(kind) ==
    /\ LoopRunning
    /\ loop_ntodo > 0
    /\ Head(loop_ready).kind = kind
\* the callback returns, having queued cbs
Then(cbs) ==
    /\ loop_ready' = Tail(loop_ready) \o cbs
    /\ loop_ntodo' = loop_ntodo - 1

\* run_many up to its await: gather makes one task per address
RunManyStart ==
    /\ Handle("run_many")
    /\ IF addresses = <<>>
       THEN /\ many' = [many EXCEPT !.pc = "returned", !.gather = "result"]
            /\ Then(<<>>)
            /\ UNCHANGED site
       ELSE /\ many' = [many EXCEPT !.pc = "gathering", !.gather = "pending"]
            /\ site' = [i \in DOMAIN site |-> [site[i] EXCEPT !.pc = "scheduled"]]
            /\ Then([i \in 1..Len(addresses) |-> Cb("run_for_address", i, "")])
    /\ UNCHANGED <<addresses, loop_timers, loop_blocked, agent_task, done_order,
                   nonasync_vars>>

\* run_for_address up to its return or its await: steps 1 to 3
RunForAddressStart ==
    /\ Handle("run_for_address")
    /\ LET i == Head(loop_ready).i
           parsed == parse_jurisdiction_from_address(addresses[i])
       IN  IF ~parsed.ok
           THEN /\ site' = [site EXCEPT ![i].pc = "returned",
                                        ![i].bundle = InvalidBundle(addresses[i])]
                /\ Then(<<Cb("many_done", i, "")>>)
                /\ UNCHANGED agent_task
           ELSE /\ site' = [site EXCEPT ![i].pc = "gathering",
                                        ![i].constructed = TRUE,
                                        ![i].gather = "pending"]
                /\ agent_task' = [agent_task EXCEPT ![i] =
                       [a \in Agents |-> [state |-> "scheduled", result |-> NoResult]]]
                /\ Then([k \in 1..3 |-> Cb("agent", i, AgentOrder[k])])
    /\ UNCHANGED <<addresses, loop_timers, loop_blocked, done_order, many,
                   nonasync_vars>>

\* ResearchAgent.run up to await asyncio.sleep(0.2)
ResearchStart ==
    /\ Handle("agent")
    /\ Head(loop_ready).a = "research"
    /\ LET i == Head(loop_ready).i
       IN  /\ agent_task' = [agent_task EXCEPT ![i]["research"].state = "sleeping"]
           /\ loop_timers' = Append(loop_timers, i)
    /\ Then(<<>>)
    /\ UNCHANGED <<addresses, loop_blocked, site, done_order, many, nonasync_vars>>

\* the timer of the sleep: the sleeping task is queued
SleepTimer ==
    /\ Handle("timer")
    /\ Then(<<Cb("resume", Head(loop_ready).i, "research")>>)
    /\ UNCHANGED <<addresses, loop_timers, loop_blocked, site, agent_task,
                   done_order, many, nonasync_vars>>

\* the run of agent a for address i returns or raises: its task is done and the
\* done callback of the gather is queued
AgentFinished(i, a, out) ==
    /\ agent_task' = [agent_task EXCEPT ![i][a] =
           [state |-> IF out.raised THEN "raised" ELSE "done",
            result |-> IF out.raised THEN NoResult ELSE out.value]]
    /\ done_order' = [done_order EXCEPT ![i] = Append(@, a)]
    /\ Then(<<Cb("gather_done", i, a)>>)
    /\ UNCHANGED loop_blocked

\* the read of the data file never returns: the callback, and the loop with it,
\* is stuck
AgentHangs(i, a) ==
    /\ agent_task' = [agent_task EXCEPT ![i][a].state = "hung"]
    /\ loop_blocked' = TRUE
    /\ UNCHANGED <<loop_ready, loop_ntodo, done_order>>

\* the jurisdiction f"{city}, {state}"
Jurisdiction(parsed) == parsed.city \o <<",", " ">> \o parsed.state

\* ResearchAgent.run after the sleep
ResearchResume ==
    /\ Handle("resume")
    /\ LET i == Head(loop_ready).i
           parsed == parse_jurisdiction_from_address(addresses[i])
       IN  \/ \E policies \in PolicyFiles :
                  AgentFinished(i, "research",
                      research_run(addresses[i], parsed.city, parsed.state, policies))
           \/ AgentHangs(i, "research")
    /\ UNCHANGED <<addresses, loop_timers, site, many, nonasync_vars>>

\* PermittingAgent.run, which has no await
PermittingRun ==
    /\ Handle("agent")
    /\ Head(loop_ready).a = "permitting"
    /\ LET i == Head(loop_ready).i
           parsed == parse_jurisdiction_from_address(addresses[i])
       IN  \/ \E rules \in RuleFiles :
                  AgentFinished(i, "permitting",
                      permitting_run(addresses[i], Jurisdiction(parsed), rules))
           \/ AgentHangs(i, "permitting")
    /\ UNCHANGED <<addresses, loop_timers, site, many, nonasync_vars>>

\* DesignAgent.run, which has no await
DesignRun ==
    /\ Handle("agent")
    /\ Head(loop_ready).a = "design"
    /\ LET i == Head(loop_ready).i
       IN  \/ \E irradiance \in IrradianceFiles :
                  AgentFinished(i, "design", design_run(addresses[i], irradiance))
           \/ AgentHangs(i, "design")
    /\ UNCHANGED <<addresses, loop_timers, site, many, nonasync_vars>>

\* the done callback of the gather of address i, for its child a: the first
\* child that raised finishes the gather with that exception (return_exceptions
\* is not set); the last child to finish finishes it with the results; a gather
\* that is finished ignores its children
GatherDone ==
    /\ Handle("gather_done")
    /\ LET i == Head(loop_ready).i
           a == Head(loop_ready).a
           n == site[i].nfinished + 1
       IN  IF site[i].gather /= "pending"
           THEN /\ site' = [site EXCEPT ![i].nfinished = n]
                /\ Then(<<>>)
           ELSE IF agent_task[i][a].state = "raised"
           THEN /\ site' = [site EXCEPT ![i].nfinished = n,
                                        ![i].gather = "exception"]
                /\ Then(<<Cb("rfa_resume", i, "")>>)
           ELSE IF n = Cardinality(Agents)
           THEN /\ site' = [site EXCEPT ![i].nfinished = n, ![i].gather = "result"]
                /\ Then(<<Cb("rfa_resume", i, "")>>)
           ELSE /\ site' = [site EXCEPT ![i].nfinished = n]
                /\ Then(<<>>)
    /\ UNCHANGED <<addresses, loop_timers, loop_blocked, agent_task, done_order,
                   many, nonasync_vars>>

\* mutant of GatherResults: the results in the order the runs finished
GatherResults_AsCompleted(i) ==
    [k \in 1..Len(done_order[i]) |-> agent_task[i][done_order[i][k]].result]

\* the value of the gather of address i: the results of its children, in the
\* order of its arguments
GatherResults(i) ==
    [k \in 1..Len(AgentOrder) |-> agent_task[i][AgentOrder[k]].result]

\* the attributes steps 4 to 9 read exist on the three results
HasAttributes(results) ==
    /\ {"favorable_policy", "rationale"} \subseteq DOMAIN results[1]
    /\ {"form", "readiness_score", "jurisdiction"} \subseteq DOMAIN results[2]
    /\ {"capacity_kw", "annual_kwh", "bom"} \subseteq DOMAIN results[3]

\* run_for_address after its await: the exception of the gather is raised out
\* of it, or steps 4 to 9 run on the results
RunForAddressResume ==
    /\ Handle("rfa_resume")
    /\ LET i == Head(loop_ready).i
           results == GatherResults(i)
       IN  /\ IF site[i].gather = "exception" \/ ~HasAttributes(results)
              THEN site' = [site EXCEPT ![i].pc = "raised"]
              ELSE site' = [site EXCEPT ![i].pc = "returned",
                                        ![i].bundle = SiteBundleOf(addresses[i],
                                            results[1], results[2], results[3])]
           /\ Then(<<Cb("many_done", i, "")>>)
    /\ UNCHANGED <<addresses, loop_timers, loop_blocked, agent_task, done_order,
                   many, nonasync_vars>>

\* the done callback of the gather of run_many, for the task of address i
RunManyGatherDone ==
    /\ Handle("many_done")
    /\ LET i == Head(loop_ready).i
           n == many.nfinished + 1
       IN  IF many.gather /= "pending"
           THEN /\ many' = [many EXCEPT !.nfinished = n]
                /\ Then(<<>>)
           ELSE IF site[i].pc = "raised"
           THEN /\ many' = [many EXCEPT !.nfinished = n, !.gather = "exception"]
                /\ Then(<<Cb("many_resume", 0, "")>>)
           ELSE IF n = Len(addresses)
           THEN /\ many' = [many EXCEPT !.nfinished = n, !.gather = "result"]
                /\ Then(<<Cb("many_resume", 0, "")>>)
           ELSE /\ many' = [many EXCEPT !.nfinished = n]
                /\ Then(<<>>)
    /\ UNCHANGED <<addresses, loop_timers, loop_blocked, site, agent_task,
                   done_order, nonasync_vars>>

\* run_many after its await: it returns the bundles, in the order of the
\* addresses, or the exception of the gather is raised out of it
RunManyResume ==
    /\ Handle("many_resume")
    /\ IF many.gather = "exception"
       THEN many' = [many EXCEPT !.pc = "raised"]
       ELSE many' = [many EXCEPT !.pc = "returned",
                                 !.result = [i \in 1..Len(addresses) |-> site[i].bundle]]
    /\ Then(<<>>)
    /\ UNCHANGED <<addresses, loop_timers, loop_blocked, site, agent_task,
                   done_order, nonasync_vars>>

(***************************************************************************)
(* CacheSpec: the three file caches of app/, called one call at a time     *)
(* while the clock advances: ResearchAgent.fetch_news (news_file),         *)
(* DesignAgent.call_pvwatts (pv_cache) and geocode_address (geo_file).     *)
(* Times are in seconds.                                                   *)
(***************************************************************************)
SECONDS_PER_DAY == 86400

\* timedelta.seconds of a difference of delta seconds: the seconds within the
\* day; whole days, also negative ones, are held apart in timedelta.days
TimedeltaSeconds(delta) == delta % SECONDS_PER_DAY

\* a cache file: "absent", "valid" (it holds JSON, content) or "corrupt" (it
\* exists and json.load raises on it)
File(state, mtime, content) == [state |-> state, mtime |-> mtime, content |-> content]
NoFile == File("absent", 0, "")
\* what a cached call gives: it raised or returned value, where the value is
\* from, the file afterwards and whether a request went out
Outcome(raised, value, source, file, requested) ==
    [raised |-> raised, value |-> value, source |-> source, file |-> file,
     requested |-> requested]

\* fetch_news(address) at time at: file is the cache file of the address,
\* has_key tells whether NEWS_API_KEY is set, reply is what NewsAPI answers
fetch_news(file, at, has_key, reply) ==
    IF file.state /= "absent"
           /\ TimedeltaSeconds(at - file.mtime) < SECONDS_PER_DAY
    THEN IF file.state = "corrupt"
         THEN Outcome(TRUE, "", "cache", file, FALSE)       \* JSONDecodeError
         ELSE Outcome(FALSE, file.content, "cache", file, FALSE)
    ELSE IF ~has_key THEN Outcome(FALSE, "static_mock_headlines", "static", file, FALSE)
    ELSE LET articles == IF reply = "error" THEN "newsapi_error"
                         ELSE IF reply = "nothing_relevant" THEN "no_recent_news"
                         ELSE reply
         IN  Outcome(FALSE, articles, "api", File("valid", at, articles), TRUE)

\* mutant of call_pvwatts: the fallback data of a failed request is not stored
call_pvwatts_NoStoreOnError(file, at, has_key, reply) ==
    IF file.state /= "absent"
    THEN IF file.state = "corrupt"
         THEN Outcome(TRUE, "", "cache", file, FALSE)
         ELSE Outcome(FALSE, file.content, "cache", file, FALSE)
    ELSE IF ~has_key THEN Outcome(FALSE, "static_mock_outputs", "static", file, FALSE)
    ELSE IF reply = "error"
    THEN Outcome(FALSE, "fallback_outputs_with_error", "api", file, TRUE)
    ELSE Outcome(FALSE, reply, "api", File("valid", at, reply), TRUE)

\* call_pvwatts(lat, lon) at time at: file is the cache file of the key,
\* has_key tells whether NREL_API_KEY is set, reply is what PVWatts answers
call_pvwatts(file, at, has_key, reply) ==
    IF file.state /= "absent"
    THEN IF file.state = "corrupt"
         THEN Outcome(TRUE, "", "cache", file, FALSE)       \* JSONDecodeError
         ELSE Outcome(FALSE, file.content, "cache", file, FALSE)
    ELSE IF ~has_key THEN Outcome(FALSE, "static_mock_outputs", "static", file, FALSE)
    ELSE LET data == IF reply = "error" THEN "fallback_outputs_with_error"
                     ELSE reply
         IN  Outcome(FALSE, data, "api", File("valid", at, data), TRUE)

\* round(x, 2) of a coordinate given in 1/10000 degree (the samples are not
\* at a tie)
Round2(c) ==
    IF c >= 0 THEN 100 * RoundDiv(c, 100) ELSE -(100 * RoundDiv(-c, 100))

\* mutant of PvKey: the key is made of the coordinates as they are
PvKey_Unrounded(lat, lon) == <<lat, lon>>

\* the key of the cache file of call_pvwatts
PvKey(lat, lon) == <<Round2(lat), Round2(lon)>>

Times == {0, 3600, 90000, 259200}
LatSamples == {334484, 334512, 334449}
LonSamples == {-1120740, -1120712}
RoundedKeys == {<<Round2(lat), Round2(lon)>> : lat \in LatSamples, lon \in LonSamples}
PvKeys == RoundedKeys \cup (LatSamples \X LonSamples)
NewsReplies == {"headlines", "nothing_relevant", "error"}
PvReplies == {"outputs", "error"}

NoCall == [op |-> "none"]

CacheInit ==
    /\ now = 0
    /\ news_file \in {NoFile, File("corrupt", 0, "")}
                        \cup {File("valid", 0, "old_headlines")}
    /\ \E f \in [RoundedKeys -> {NoFile, File("corrupt", 0, ""),
                                 File("valid", 0, "old_outputs")}] :
           pv_cache = [k \in PvKeys |-> IF k \in RoundedKeys THEN f[k] ELSE NoFile]
    /\ pv_written = [k \in RoundedKeys |->
                        IF pv_cache[k].state = "valid" THEN pv_cache[k].content
                        ELSE ""]
    /\ geo_file \in {CacheAbsent, CacheCorrupt, CacheValid(Coords(302672, -977431))}
    /\ last_call = NoCall

CacheOff ==
    /\ now = 0
    /\ news_file = NoFile
    /\ pv_cache = <<>>
    /\ pv_written = <<>>
    /\ geo_file = CacheAbsent
    /\ last_call = [op |-> "off"]

\* time passes
Tick ==
    /\ last_call.op /= "off"
    /\ \E t \in Times : t > now /\ now' = t
    /\ UNCHANGED <<news_file, pv_cache, pv_written, geo_file, last_call,
                   noncache_vars>>

FetchNews ==
    /\ last_call.op /= "off"
    /\ \E has_key \in BOOLEAN, reply \in NewsReplies :
           LET out == fetch_news(news_file, now, has_key, reply)
           IN  /\ news_file' = out.file
               /\ last_call' = [op |-> "fetch_news", at |-> now,
                                before |-> news_file, out |-> out]
    /\ UNCHANGED <<now, pv_cache, pv_written, geo_file, noncache_vars>>

\* call_pvwatts(lat, lon); pv_written keeps, for the pair of rounded
\* coordinates, the entry that was written for it
CallPvwatts ==
    /\ last_call.op /= "off"
    /\ \E lat \in LatSamples, lon \in LonSamples, has_key \in BOOLEAN,
          reply \in PvReplies :
           LET key == PvKey(lat, lon)
               rounded == <<Round2(lat), Round2(lon)>>
               out == call_pvwatts(pv_cache[key], now, has_key, reply)
           IN  /\ pv_cache' = [pv_cache EXCEPT ![key] = out.file]
               /\ pv_written' = IF out.file /= pv_cache[key] /\ pv_written[rounded] = ""
                                THEN [pv_written EXCEPT ![rounded] = out.file.content]
                                ELSE pv_written
               /\ last_call' = [op |-> "call_pvwatts", at |-> now,
                                before |-> pv_cache[key], out |-> out,
                                written |-> pv_written[rounded]]
    /\ UNCHANGED <<now, news_file, geo_file, noncache_vars>>

GeocodeAddress ==
    /\ last_call.op /= "off"
    /\ \E lookup \in GeoLookups :
           LET g == geocode_address(geo_file, lookup)
           IN  /\ geo_file' = g.entry
               /\ last_call' = [op |-> "geocode_address", at |-> now,
                                before |-> geo_file, lookup |-> lookup,
                                out |-> Outcome(FALSE, g.coords,
                                    IF g.how = "cached" THEN "cache" ELSE g.how,
                                    g.entry, g.how /= "cached")]
    /\ UNCHANGED <<now, news_file, pv_cache, pv_written, noncache_vars>>

(***************************************************************************)
(* RaceSpec: several evaluations run call_pvwatts for one key at the same  *)
(* time (nothing in the code locks the cache file); every file operation   *)
(* is a step of its own.  race_file is what the file holds: "absent",      *)
(* "empty" (open(path, "w") truncated it), "partial" (a part of the JSON   *)
(* text was flushed) or "full" (the whole text), and by whom.             *)
(***************************************************************************)
NumEvaluations == 3
Evaluations == 1..NumEvaluations

Holding(kind, by) == [kind |-> kind, by |-> by]

RaceInit ==
    /\ race_file \in {Holding("absent", 0), Holding("full", 0)}
    /\ race_pc = [p \in Evaluations |-> "start"]
    /\ race_seen = [p \in Evaluations |-> "nothing"]

RaceOff ==
    /\ race_file = Holding("absent", 0)
    /\ race_pc = <<>>
    /\ race_seen = <<>>

\* os.path.exists(cache_path)
CheckExists(p) ==
    /\ race_pc[p] = "start"
    /\ race_pc' = [race_pc EXCEPT ![p] = IF race_file.kind /= "absent"
                                         THEN "reading" ELSE "requesting"]
    /\ UNCHANGED <<race_file, race_seen, nonrace_vars>>

\* with open(cache_path) as f: return json.load(f)
LoadEntry(p) ==
    /\ race_pc[p] = "reading"
    /\ race_seen' = [race_seen EXCEPT ![p] = race_file.kind]
    /\ race_pc' = [race_pc EXCEPT ![p] = IF race_file.kind = "full"
                                         THEN "returned" ELSE "raised"]
    /\ UNCHANGED <<race_file, nonrace_vars>>

\* the request to PVWatts, or its fallback data
RequestData(p) ==
    /\ race_pc[p] = "requesting"
    /\ race_pc' = [race_pc EXCEPT ![p] = "fetched"]
    /\ UNCHANGED <<race_file, race_seen, nonrace_vars>>

\* the cache file after open(cache_path, "w")
OpenedForWrite(f, p) == Holding("empty", p)

OpenForWrite(p) ==
    /\ race_pc[p] = "fetched"
    /\ race_file' = OpenedForWrite(race_file, p)
    /\ race_pc' = [race_pc EXCEPT ![p] = "writing"]
    /\ UNCHANGED <<race_seen, nonrace_vars>>

\* json.dump(data, f): a part of the text reaches the file
DumpPart(p) ==
    /\ race_pc[p] = "writing"
    /\ race_file.kind /= "partial"
    /\ race_file' = Holding("partial", p)
    /\ UNCHANGED <<race_pc, race_seen, nonrace_vars>>

\* the end of the with block: all of the text is in the file
CloseWritten(p) ==
    /\ race_pc[p] = "writing"
    /\ race_file' = Holding("full", p)
    /\ race_pc' = [race_pc EXCEPT ![p] = "returned"]
    /\ UNCHANGED <<race_seen, nonrace_vars>>

(***************************************************************************)
(* ProducerSpec: one producer function called alone, on inputs of every    *)
(* shape.  call is the function and its inputs, ret what it returned.      *)
(***************************************************************************)
\* what the LLM replies to the research prompt: as in Spec, and JSON text
\* that is a number or a string
ResearchRepliesAll ==
    ResearchReplies \cup {JTextOf(JInt(7)), JTextOf(JFreeText), JIntText(70)}

ResearchCalls ==
    {[fn |-> "ResearchAgent.run", fault |-> fault, raw |-> raw] :
        fault \in BOOLEAN, raw \in ResearchRepliesAll}

NotReturned == [done |-> FALSE]
Returns(value) == [done |-> TRUE, value |-> value]

ProducerOff ==
    /\ call = <<>>
    /\ ret = <<>>

ResearchRunCall ==
    /\ ret = NotReturned
    /\ call.fn = "ResearchAgent.run"
    /\ ret' = Returns(ResearchAgent_run(call.fault, call.raw))
    /\ UNCHANGED <<call, nonproducer_vars>>

\* forms given to compute_permit_score: review days, permits required and
\* fire setback
ReviewDays ==
    {JInt(-4), JInt(0), JInt(1), JInt(5), JInt(10), JInt(30), JInt(45),
     JBool(TRUE), JFloat(10500)}
PermitCounts == {0, 1, 2, 3, 4, 11}
Setbacks ==
    {JInt(0), JInt(18), JInt(20), JInt(21), JInt(36), JInt(300), JFloat(22500)}

PermitForm(days, required, setback) ==
    [average_review_days |-> days, permit_required |-> JListOf(required),
     fire_code_setback_inches |-> setback]

PermitScoreCalls ==
    {[fn |-> "compute_permit_score", form |-> PermitForm(days, n, setback)] :
        days \in ReviewDays, n \in PermitCounts, setback \in Setbacks}

ComputePermitScoreCall ==
    /\ ret = NotReturned
    /\ call.fn = "compute_permit_score"
    /\ ret' = Returns(compute_permit_score(call.form))
    /\ UNCHANGED <<call, nonproducer_vars>>

DesignCalls ==
    {[fn |-> "DesignAgent.run", fault |-> fault, coords |-> coords,
      outputs |-> outputs, raw |-> raw] :
        fault \in BOOLEAN,
        coords \in {Coords(302672, -977431), Coords(0, 515000)},
        outputs \in PvOutputs, raw \in DesignReplies}

DesignRunCall ==
    /\ ret = NotReturned
    /\ call.fn = "DesignAgent.run"
    /\ ret' = Returns(DesignAgent_run(call.fault, call.coords, call.outputs,
                                      call.raw))
    /\ UNCHANGED <<call, nonproducer_vars>>

\* PermittingAgent.run of src/agents, for "Tempe, AZ"
TEMPE == <<"T", "e", "m", "p", "e">>
ARIZONA == <<"A", "Z">>

PermittingCalls ==
    {[fn |-> "PermittingAgent.run", rules |-> rules] : rules \in RuleFiles}

PermittingRunCall ==
    /\ ret = NotReturned
    /\ call.fn = "PermittingAgent.run"
    /\ ret' = Returns(permitting_run(<<"1", " ">> \o TEMPE \o <<",", " ">> \o ARIZONA,
                                     TEMPE \o <<",", " ">> \o ARIZONA, call.rules))
    /\ UNCHANGED <<call, nonproducer_vars>>

ProducerInit ==
    /\ call \in ResearchCalls \cup PermitScoreCalls \cup DesignCalls
                    \cup PermittingCalls
    /\ ret = NotReturned

(***************************************************************************)
(* BatchSpec: run_tests of run_tests.py, statement by statement.  batch    *)
(* holds the position in the function (pc, and i, the index of addr in     *)
(* TEST_ADDRESSES), result (what evaluate_address returned for addr),      *)
(* results_summary, what was printed as the summary, and log: for every    *)
(* pass of the loop body so far, the address and how the pass ended.       *)
(***************************************************************************)
TEST_ADDRESSES ==
    <<"Austin, TX", "Los Angeles, CA", "Seattle, WA", "Phoenix, AZ",
      "Napa County, CA", "Berlin, Germany">>

\* what evaluate_address returns to run_tests: score and go_no_go
BatchResults ==
    {[score |-> 72, decision |-> "GO"], [score |-> 40, decision |-> "NO_GO"]}
NoBatchResult == [score |-> 0, decision |-> ""]

BatchInit ==
    batch = [pc |-> "evaluate", i |-> 1, result |-> NoBatchResult,
             results_summary |-> <<>>, printed |-> <<>>, log |-> <<>>]

BatchOff == batch = <<>>

InLoop(where) == batch /= <<>> /\ batch.pc = where

Passed(b, how) == Append(b.log, [address |-> TEST_ADDRESSES[b.i], ended |-> how])

\* mutant of ExceptArm: the exception ends the loop
ExceptArm_Abort(b) ==
    [b EXCEPT !.pc = "summary", !.result = NoBatchResult, !.log = Passed(b, "error")]

\* except Exception as e: the error is printed and the loop body goes on to
\* its last statement
ExceptArm(b) ==
    [b EXCEPT !.pc = "sleep", !.result = NoBatchResult, !.log = Passed(b, "error")]

\* result = orchestrator.evaluate_address(addr) and the two .get calls: it
\* returns, or it raises
BatchEvaluate ==
    /\ InLoop("evaluate")
    /\ \/ \E r \in BatchResults : batch' = [batch EXCEPT !.pc = "save", !.result = r]
       \/ batch' = ExceptArm(batch)
    /\ UNCHANGED nonbatch_vars

\* with open(file_name, "w") as f: json.dump(result, f, indent=2)
BatchSave ==
    /\ InLoop("save")
    /\ \/ batch' = [batch EXCEPT !.pc = "append"]
       \/ batch' = ExceptArm(batch)
    /\ UNCHANGED nonbatch_vars

\* results_summary.append({...}) and the print that ends the try body
BatchAppend ==
    /\ InLoop("append")
    /\ batch' = [batch EXCEPT
                    !.pc = "sleep",
                    !.results_summary =
                        Append(@, [address |-> TEST_ADDRESSES[batch.i],
                                   score |-> batch.result.score,
                                   decision |-> batch.result.decision]),
                    !.result = NoBatchResult,
                    !.log = Passed(batch, "completed")]
    /\ UNCHANGED nonbatch_vars

\* time.sleep(3), and the for statement takes the next address or ends
BatchSleep ==
    /\ InLoop("sleep")
    /\ batch' = IF batch.i < Len(TEST_ADDRESSES)
                THEN [batch EXCEPT !.pc = "evaluate", !.i = @ + 1]
                ELSE [batch EXCEPT !.pc = "summary"]
    /\ UNCHANGED nonbatch_vars

\* the summary is printed, one line per item of results_summary
BatchSummary ==
    /\ InLoop("summary")
    /\ batch' = [batch EXCEPT !.pc = "finished", !.printed = batch.results_summary]
    /\ UNCHANGED nonbatch_vars

(***************************************************************************)
(* The specifications                                                      *)
(***************************************************************************)
Next ==
    \/ \E a \in Addresses : EvaluateAddress(a)
    \/ \E i \in 1..3 : AgentCall(i)
    \/ ResearchReturn
    \/ PermittingReturn
    \/ DesignReturn
    \/ EvaluateReturn

Init ==
    SyncInit /\ FusionOff /\ AsyncOff /\ CacheOff /\ RaceOff /\ ProducerOff /\ BatchOff
Spec == Init /\ [][Next]_vars

FusionNext == BuildFinalDecisionCall

FusionStart ==
    FusionInit /\ SyncOff /\ AsyncOff /\ CacheOff /\ RaceOff /\ ProducerOff /\ BatchOff
FusionSpec == FusionStart /\ [][FusionNext]_vars

AsyncNext ==
    \/ RunOnce
    \/ RunManyStart
    \/ RunForAddressStart
    \/ ResearchStart
    \/ SleepTimer
    \/ ResearchResume
    \/ PermittingRun
    \/ DesignRun
    \/ GatherDone
    \/ RunForAddressResume
    \/ RunManyGatherDone
    \/ RunManyResume

AsyncStart ==
    AsyncInit /\ FusionOff /\ SyncOff /\ CacheOff /\ RaceOff /\ ProducerOff /\ BatchOff
AsyncSpec == AsyncStart /\ [][AsyncNext]_vars

CacheNext ==
    \/ Tick
    \/ FetchNews
    \/ CallPvwatts
    \/ GeocodeAddress

CacheStart ==
    CacheInit /\ FusionOff /\ SyncOff /\ AsyncOff /\ RaceOff /\ ProducerOff /\ BatchOff
CacheSpec == CacheStart /\ [][CacheNext]_vars

RaceNext ==
    \/ \E p \in Evaluations : CheckExists(p)
    \/ \E p \in Evaluations : LoadEntry(p)
    \/ \E p \in Evaluations : RequestData(p)
    \/ \E p \in Evaluations : OpenForWrite(p)
    \/ \E p \in Evaluations : DumpPart(p)
    \/ \E p \in Evaluations : CloseWritten(p)

RaceStart ==
    RaceInit /\ FusionOff /\ SyncOff /\ AsyncOff /\ CacheOff /\ ProducerOff /\ BatchOff
RaceSpec == RaceStart /\ [][RaceNext]_vars

ProducerNext ==
    \/ ResearchRunCall
    \/ ComputePermitScoreCall
    \/ DesignRunCall
    \/ PermittingRunCall

ProducerStart ==
    ProducerInit /\ FusionOff /\ SyncOff /\ AsyncOff /\ CacheOff /\ RaceOff
        /\ BatchOff
ProducerSpec == ProducerStart /\ [][ProducerNext]_vars

BatchNext ==
    \/ BatchEvaluate
    \/ BatchSave
    \/ BatchAppend
    \/ BatchSleep
    \/ BatchSummary

BatchStart ==
    BatchInit /\ FusionOff /\ SyncOff /\ AsyncOff /\ CacheOff /\ RaceOff
        /\ ProducerOff
BatchSpec == BatchStart /\ [][BatchNext]_vars

(***************************************************************************)
(* Claims about build_final_decision and _extract_score (FusionSpec)       *)
(***************************************************************************)
Called == fusion_out /= <<>>

\* C1: build_final_decision returns "GO" if and only if the returned score is
\* at least 65 and each of the three component scores is at least 50, and
\* "NO_GO" in every other case; so a component below 50 forces "NO_GO"
\* however high the weighted score is.
C1_GoIffThresholdAndFloors ==
    Called =>
        LET c == fusion_out.component_scores
        IN  /\ fusion_out.go_no_go \in {"GO", "NO_GO"}
            /\ fusion_out.go_no_go = "GO" <=>
                   /\ fusion_out.score >= 65
                   /\ c.research >= 50
                   /\ c.permitting >= 50
                   /\ c.design >= 50

\* C1 witness: component scores 100, 100, 10 give the weighted score 73, above
\* the threshold, and the decision is still "NO_GO".
C1_Witness ==
    /\ Called
    /\ fusion_out.component_scores =
           [research |-> 100, permitting |-> 100, design |-> 10]
    /\ fusion_out.score = 73
    /\ fusion_out.go_no_go = "NO_GO"

\* C2: _extract_score is total and clamped: for every producer result shape the
\* component score it returns is one integer in the range 0..100.
C2_ExtractScoreInRange ==
    Called =>
        \A k \in {"research", "permitting", "design"} :
            fusion_out.component_scores[k] \in 0..100

(***************************************************************************)
(* Claims about Orchestrator.evaluate_address (Spec)                       *)
(***************************************************************************)
Returned == pc = "returned"
\* the payload of agent k in the returned record
PayloadOf(k) == DictGet(evaluation[k], PayloadKey[k])
\* the payload holds a description of the error
DescribesError(payload) == \E key \in DOMAIN payload.d : payload.d[key] = ErrorText

\* C3: when the run of one of the three agents hits an internal exception, the
\* agent still returns a result whose payload carries score 0 and an error
\* description, its component score is exactly 0, the decision is "NO_GO"
\* whatever the other two scored, and the returned record still holds the
\* results of the other two agents.
C3_FailedAgentScoresZeroNoGo ==
    Returned =>
        \A k \in agent_failed :
            /\ PayloadOf(k).t = "dict"
            /\ DictGet(PayloadOf(k), "score") = JInt(0)
            /\ DescribesError(PayloadOf(k))
            /\ evaluation.final_decision.component_scores[k] = 0
            /\ evaluation.final_decision.go_no_go = "NO_GO"
            /\ \A j \in Agents \ {k} :
                   /\ evaluation[j] = agent_result[j]
                   /\ PayloadOf(j).t = "dict"
                   /\ "score" \in DOMAIN PayloadOf(j).d

\* C3 witness: only the permitting run failed, research and design both scored
\* 100 (weighted score 70, above the threshold), and the decision is "NO_GO".
C3_Witness ==
    /\ Returned
    /\ agent_failed = {"permitting"}
    /\ evaluation.final_decision.component_scores =
           [research |-> 100, permitting |-> 0, design |-> 100]
    /\ evaluation.final_decision.score = 70
    /\ evaluation.final_decision.go_no_go = "NO_GO"

\* C6: when the address cannot be geocoded (the lookup fails or finds no
\* match), evaluate_address short-circuits: no producer is invoked, all
\* component scores are 0 and the decision is "NO_GO".
C6_UngeocodableShortCircuits ==
    (Returned /\ geocode_how = "failed") =>
        /\ \A k \in Agents : agent_state[k] = "pending"
        /\ \A k \in Agents : evaluation.final_decision.component_scores[k] = 0
        /\ evaluation.final_decision.go_no_go = "NO_GO"

\* C8: evaluate_address launches the three producers concurrently: every
\* producer is started before any other producer has completed.
C8_AllStartedBeforeAnyCompletes ==
    pc = "running" =>
        \A a \in Agents, b \in Agents :
            agent_state[a] = "returned" => agent_state[b] /= "pending"

(***************************************************************************)
(* Claims about run_for_address and run_many (AsyncSpec)                   *)
(***************************************************************************)
\* run_for_address for address i has finished: it returned or raised
Finished(i) == site[i].pc \in {"returned", "raised"}
\* the run of an agent of address i raised
Faulted(i) == \E a \in Agents : agent_task[i][a].state = "raised"
\* a result is a failed result tagged with a timeout error
TimedOut(result) == "error" \in DOMAIN result /\ result.error = "timeout"

\* C4: a fault raised inside one agent's run is contained: run_for_address
\* does not raise and the bundle it returns has three results, and run_many
\* does not raise and returns a bundle for every address.
C4_AgentFaultContained ==
    \A i \in DOMAIN site :
        Faulted(i) =>
            /\ site[i].pc /= "raised"
            /\ site[i].pc = "returned" => Len(site[i].bundle.results) = 3
            /\ many.pc /= "raised"
            /\ many.pc = "returned" => Len(many.result) = Len(addresses)

\* C5: for an address that parse_jurisdiction_from_address rejects,
\* run_for_address returns at once a SiteBundle with decision "INVALID",
\* score 0, no results and a summary that explains the invalid format, and
\* none of the three agents is constructed or run for that address.
C5_RejectedAddressShortCircuits ==
    \A i \in DOMAIN site :
        ~parse_jurisdiction_from_address(addresses[i]).ok =>
            /\ ~site[i].constructed
            /\ \A a \in Agents : agent_task[i][a].state = "none"
            /\ site[i].pc \in {"none", "scheduled", "returned"}
            /\ site[i].pc = "returned" =>
                   /\ site[i].bundle.address = addresses[i]
                   /\ site[i].bundle.decision = "INVALID"
                   /\ site[i].bundle.score = 0
                   /\ site[i].bundle.results = <<>>
                   /\ site[i].bundle.summary =
                          <<[line |-> "invalid_format", address |-> addresses[i]]>>

\* C5 witness: of two addresses the first passes the pattern but has no city
\* ("x, ,AZ"): its bundle is "INVALID" and it has no agents, while the agents
\* of the second address have been constructed.
C5_Witness ==
    /\ addresses = <<ADDR_NO_CITY, ADDR_PHOENIX>>
    /\ site[1].pc = "returned"
    /\ site[1].bundle.decision = "INVALID"
    /\ ~site[1].constructed
    /\ site[2].constructed

\* C7: run_for_address is a full barrier: for a valid address all three agent
\* runs are started, and run_for_address does not finish (no bundle is
\* returned, nothing is raised) before every one of the three runs has
\* completed.
C7_FinishesAfterAllAgents ==
    \A i \in DOMAIN site :
        site[i].constructed =>
            /\ \A a \in Agents : agent_task[i][a].state /= "none"
            /\ Finished(i) =>
                   \A a \in Agents : agent_task[i][a].state \in {"done", "raised"}

\* C9: whatever the order in which the three runs finish, when all three have
\* returned a result run_for_address returns a bundle whose results are the
\* research result, the permitting result and the design result in this
\* order, and each component score is the score of the result of its own
\* agent.
C9_ResultsInArgumentOrder ==
    \A i \in DOMAIN site :
        (Finished(i) /\ \A a \in Agents : agent_task[i][a].state = "done") =>
            /\ site[i].pc = "returned"
            /\ site[i].bundle.results =
                   <<model_dump(agent_task[i]["research"].result),
                     model_dump(agent_task[i]["permitting"].result),
                     model_dump(agent_task[i]["design"].result)>>
            /\ "favorable_policy" \in DOMAIN site[i].bundle.results[1]
            /\ "readiness_score" \in DOMAIN site[i].bundle.results[2]
            /\ "capacity_kw" \in DOMAIN site[i].bundle.results[3]
            /\ LET breakdown == site[i].bundle.summary[Len(site[i].bundle.summary)]
               IN  /\ breakdown.line = "breakdown"
                   /\ breakdown.research =
                          research_score(agent_task[i]["research"].result)
                   /\ breakdown.permitting =
                          permit_score(agent_task[i]["permitting"].result)
                   /\ breakdown.design =
                          design_score(agent_task[i]["design"].result)

\* C9 witness: the runs finished in the order permitting, design, research,
\* which is not the order of the results, and the bundle was returned with
\* the scores 90, 80 and 98.4.
C9_Witness ==
    \E i \in DOMAIN site :
        /\ site[i].pc = "returned"
        /\ done_order[i] = <<"permitting", "design", "research">>
        /\ Len(site[i].bundle.results) = 3
        /\ site[i].bundle.score = 895
        /\ site[i].bundle.decision = "GO"

\* C10: a producer that never completes does not block the evaluation: while
\* a run is stuck, either the evaluation can still take a step or
\* run_for_address has returned a bundle in which that producer is a failed
\* result tagged with a timeout error.
C10_HungProducerDoesNotBlock ==
    \A i \in DOMAIN site :
        (\E a \in Agents : agent_task[i][a].state = "hung") =>
            \/ ENABLED AsyncNext
            \/ /\ site[i].pc = "returned"
               /\ \E k \in 1..Len(site[i].bundle.results) :
                      TimedOut(site[i].bundle.results[k])

\* ---- claims on the caches (CacheSpec) ----
CachedCall(op) == last_call.op = op

\* C11: a news cache file whose modification time is 24 hours or more in the
\* past is a miss: fetch_news does not return the cached headlines
C11_StaleNewsIsMiss ==
    (CachedCall("fetch_news") /\ last_call.before.state = "valid"
        /\ last_call.at - last_call.before.mtime >= SECONDS_PER_DAY)
    => last_call.out.source /= "cache"

\* C12: an entry that exists and cannot be parsed is a miss in each of the
\* three caches: the call does not raise and goes on to produce its value
C12_CorruptEntryIsMiss ==
    (last_call.op \in {"fetch_news", "call_pvwatts", "geocode_address"}
        /\ last_call.before.state = "corrupt")
    => (~last_call.out.raised /\ last_call.out.source /= "cache")

\* C14: once an entry was written for a pair of rounded coordinates, every
\* later call_pvwatts whose coordinates round to that pair returns the entry
\* with no request and leaves the file as it was, whatever the time
C14_PvwattsEntryKept ==
    (CachedCall("call_pvwatts") /\ last_call.written /= "")
    => /\ ~last_call.out.raised
       /\ last_call.out.value = last_call.written
       /\ ~last_call.out.requested
       /\ last_call.out.file = last_call.before

C14_Witness ==
    /\ CachedCall("call_pvwatts")
    /\ last_call.written = "outputs"
    /\ last_call.before.mtime = 0
    /\ last_call.at = 259200
    /\ last_call.out.value = "outputs"

\* C13: no evaluation that reads the cache file while others write it ever
\* reads an empty or a partly written entry
C13_ReaderNeverSeesTornEntry ==
    \A p \in DOMAIN race_seen : race_seen[p] \notin {"empty", "partial"}

\* ---- claims on the fused decision (FusionSpec) ----
\* the producer result that holds just the integer score n
PlainResult(k1, n) == Payload(k1, JDict([score |-> JInt(n)]))

\* C15: build_final_decision is a function of the three component scores:
\* whatever the producer results look like, the score, the decision and the
\* justification lines are those of the plain results with the same scores
C15_SameScoresSameDecision ==
    Called =>
        LET c == fusion_out.component_scores
            plain == build_final_decision(PlainResult("analysis", c.research),
                                          PlainResult("permit_form", c.permitting),
                                          PlainResult("design", c.design))
        IN  /\ plain.component_scores = c
            /\ plain.score = fusion_out.score
            /\ plain.go_no_go = fusion_out.go_no_go
            /\ plain.justification = fusion_out.justification

\* C15 witness: a research result that is free text (score 50 by fallback), a
\* permitting score given as the text "70" and a design result that is JSON
\* text decide as the plain scores 50, 70, 90 do
C15_Witness ==
    /\ Called
    /\ fusion_in[1] = JFreeText
    /\ fusion_in[2] = Payload("permit_form", JDict([score |-> JIntText(70)]))
    /\ fusion_in[3] = JTextOf(Payload("design", JDict([score |-> JInt(90)])))
    /\ fusion_out.component_scores =
           [research |-> 50, permitting |-> 70, design |-> 90]
    /\ fusion_out.score = 68
    /\ fusion_out.go_no_go = "GO"

\* C17: the justification has four lines, about research, permitting, design
\* and the overall result in this order; each producer line states the score
\* component_scores holds for it, the last line the returned score and decision
C17_JustificationMatchesScores ==
    Called =>
        LET j == fusion_out.justification
            c == fusion_out.component_scores
        IN  /\ Len(j) = 4
            /\ <<j[1].about, j[2].about, j[3].about, j[4].about>>
                   = <<"research", "permitting", "design", "overall">>
            /\ j[1].score = c.research
            /\ j[2].score = c.permitting
            /\ j[3].score = c.design
            /\ j[4].score = fusion_out.score
            /\ j[4].verdict = fusion_out.go_no_go

\* C17 witness: the scores 150, 70, -5 are stated as they are
C17_Witness ==
    /\ Called
    /\ fusion_out.component_scores =
           [research |-> 150, permitting |-> 70, design |-> -5]
    /\ fusion_out.justification[1].score = 150
    /\ fusion_out.justification[3].score = -5
    /\ fusion_out.justification[4] =
           JustificationLine("overall", fusion_out.score, "NO_GO")

InRange(c) ==
    \A s \in {c.research, c.permitting, c.design} : s \in 0..100

\* C19: for component scores in 0..100 the score is (4r + 3p + 3d) / 10 rounded
\* to the nearest integer, exact halves by one rule: it is within 1/2 of the
\* exact value, and two calls with the same exact value (the permitting and
\* the design score exchanged) give the same score
C19_WeightedScoreRounded ==
    (Called /\ InRange(fusion_out.component_scores)) =>
        LET c == fusion_out.component_scores
            exact10 == 4 * c.research + 3 * c.permitting + 3 * c.design
        IN  /\ Abs(10 * fusion_out.score - exact10) <= 5
            /\ fusion_out.score = WeightedScore(c.research, c.design, c.permitting)

\* ---- claims on evaluate_address called again (Spec) ----
\* C16: evaluate_address called again for the address of the call before
\* returns the decision that call returned (no agent failing in either call)
C16_SecondCallSameDecision ==
    (Returned /\ previous /= "none" /\ agent_failed = {})
    => evaluation.final_decision.go_no_go = previous

\* C18: the final score of a returned evaluation is an integer in 0..100
C18_FinalScoreInRange ==
    Returned => evaluation.final_decision.score \in 0..100

\* ---- claims on run_many (AsyncSpec) ----
\* what "bundle, final = result" has to unpack: the fields of the result
Unpacked(result) == [k \in 1..Len(SiteBundleFields) |-> result[SiteBundleFields[k]]]

\* C20: run_many returns one result per address, in the order of the
\* addresses; for an address of valid format the result unpacks into a pair
\* (bundle, final) with bundle.design.capacity_kw >= 0 and final.decision
\* "GO" or "NO-GO"
C20_RunManyReturnsPairs ==
    many.pc = "returned" =>
        /\ Len(many.result) = Len(addresses)
        /\ \A i \in 1..Len(addresses) :
               /\ many.result[i].address = addresses[i]
               /\ validate_address_format(addresses[i]) =>
                      /\ many.result[i].decision \in {"GO", "NO-GO"}
                      /\ Len(Unpacked(many.result[i])) = 2
                      /\ Unpacked(many.result[i])[1].design.capacity_kw >= 0
                      /\ Unpacked(many.result[i])[2].decision \in {"GO", "NO-GO"}

\* ---- claims on the producers called alone (ProducerSpec) ----
CallReturned(fn) == ret /= NotReturned /\ call.fn = fn
\* the reply is the text of a JSON object
IsJsonObject(raw) == JsonLoadsOk(raw) /\ JsonLoads(raw).t = "dict"

\* C21: when the LLM's reply is not the text of a JSON object (free text, or
\* JSON that is a list, a number or a string) and nothing else goes wrong,
\* ResearchAgent.run returns the fallback analysis with score 50, not the
\* failure analysis
C21_MalformedReplyDegrades ==
    (CallReturned("ResearchAgent.run") /\ ~call.fault /\ ~IsJsonObject(call.raw))
    => /\ ~ret.value.failed
       /\ DictGet(DictGet(ret.value.result, "analysis"), "score") = JInt(50)

\* C26: a PermittingResult returned by PermittingAgent.run of src/agents has
\* no form exactly when its readiness score is 0, exactly when it has
\* blockers; the score is 0 or 80; and the result without a form is returned
\* only when neither the exact entry, nor the city entry, nor DEFAULT holds a
\* rule
C26_PermittingResultShape ==
    (CallReturned("PermittingAgent.run") /\ ~ret.value.raised)
    => LET result == ret.value.value
           rules == call.rules
       IN  /\ ~result.form.present <=> result.readiness_score = 0
           /\ result.readiness_score = 0 <=> result.blockers > 0
           /\ result.readiness_score \in {0, 80}
           /\ ~result.form.present =>
                  ~(Truthy(rules.exact) \/ Truthy(rules.city) \/ Truthy(rules.default))

\* C28: the design score DesignAgent.run reports is 100, 85, 80 or 65 when
\* the run did not fail, whatever score the LLM's reply held, and 0 when it
\* failed; so the design component score is below 50 only for a failed run
C28_DesignScoreOverwritten ==
    CallReturned("DesignAgent.run")
    => LET d_score == _extract_score(ret.value.result, <<"design", "score">>)
       IN  /\ ~ret.value.failed => d_score \in {100, 85, 80, 65}
           /\ ret.value.failed => d_score = 0
           /\ d_score < SCORE_FLOOR => ret.value.failed

\* C28 witness: the reply holds score 5 with a yield below 1000 and an LCOE
\* above 0.08, and the run reports 65
C28_Witness ==
    /\ CallReturned("DesignAgent.run")
    /\ ~ret.value.failed
    /\ IsJsonObject(call.raw)
    /\ DictGet(JsonLoads(call.raw), "score") = JInt(5)
    /\ DictGet(JsonLoads(call.raw), "specific_yield_kwh_per_kw") = JInt(800)
    /\ DictGet(DictGet(ret.value.result, "design"), "score") = JInt(65)

\* the form with one more review day, one more permit, one more inch of setback
More(form) ==
    {[form EXCEPT !.average_review_days.v = IF @ >= 1000 THEN @ + 1000 ELSE @ + 1],
     [form EXCEPT !.permit_required.v = @ + 1],
     [form EXCEPT !.fire_code_setback_inches.v = IF @ >= 1000 THEN @ + 1000 ELSE @ + 1]}

\* C29: for numeric review days, a numeric setback and a list of permits,
\* compute_permit_score returns an integer in 0..100: the value of
\* 100 - 2.5 * days - 10 * permits - 0.5 * max(0, setback - 20) truncated
\* and brought into 0..100; it does not increase when the days, the permits
\* or the setback increase; the default rules score 55
C29_PermitScore ==
    CallReturned("compute_permit_score")
    => LET form == call.form
           days == Milli(form.average_review_days)
           over == IF Milli(form.fire_code_setback_inches) > 20000
                   THEN Milli(form.fire_code_setback_inches) - 20000 ELSE 0
           exact == 200000 - 5 * days - 20000 * form.permit_required.v - over
       IN  /\ ~ret.value.raised
           /\ ret.value.value \in 0..100
           /\ exact >= 202000 => ret.value.value = 100
           /\ exact < 2000 => ret.value.value = 0
           /\ exact \in 0..201999 => ret.value.value = exact \div 2000
           /\ \A more \in More(form) :
                  compute_permit_score(more).value <= ret.value.value
           /\ form = PermitForm(JInt(DEFAULT_REVIEW_DAYS), 2, JInt(DEFAULT_FIRE_SETBACK))
                  => ret.value.value = 55

\* C29 witness: the default rules (10 days, two permits, setback 18) score 55
C29_Witness ==
    /\ CallReturned("compute_permit_score")
    /\ call.form = PermitForm(JInt(10), 2, JInt(18))
    /\ ret.value = Return(55)

\* ---- claims on run_tests (BatchSpec) ----
\* the addresses of the passes that ended as how, in the order of the passes
RECURSIVE AddressesEnded(_, _)
AddressesEnded(log, how) ==
    IF log = <<>> THEN <<>>
    ELSE (IF Head(log).ended = how THEN <<Head(log).address>> ELSE <<>>)
             \o AddressesEnded(Tail(log), how)

\* C30: run_tests evaluates the addresses of TEST_ADDRESSES one after another
\* in list order; an exception while evaluating or saving one address does
\* not stop the later ones; and the summary holds exactly the addresses that
\* completed without error, in that order
C30_BatchContinuesAfterError ==
    /\ (batch /= <<>> /\ batch.pc /= "finished") =>
           /\ Len(batch.log) \in {batch.i - 1, batch.i}
           /\ \A k \in 1..Len(batch.log) : batch.log[k].address = TEST_ADDRESSES[k]
    /\ InLoop("finished") =>
           /\ Len(batch.log) = Len(TEST_ADDRESSES)
           /\ \A k \in 1..Len(batch.log) : batch.log[k].address = TEST_ADDRESSES[k]
           /\ [k \in 1..Len(batch.printed) |-> batch.printed[k].address]
                  = AddressesEnded(batch.log, "completed")

\* C30 witness: the evaluation of the second address and the save of the
\* fourth raised, and the summary holds the other four
C30_Witness ==
    /\ InLoop("finished")
    /\ AddressesEnded(batch.log, "error") = <<"Los Angeles, CA", "Phoenix, AZ">>
    /\ [k \in 1..Len(batch.printed) |-> batch.printed[k].address]
           = <<"Austin, TX", "Seattle, WA", "Napa County, CA", "Berlin, Germany">>

\* ---- C22 (FusionSpec) ----
\* a value the path can go through: a mapping, or text that parses to one
IsMapping(x) == x.t = "dict" \/ (JsonLoadsOk(x) /\ JsonLoads(x).t = "dict")
AsMapping(x) == IF x.t = "dict" THEN x ELSE JsonLoads(x)
\* the score field of a producer result can be read: the result and its
\* payload are mappings and hold the keys
Readable(data, k1) ==
    /\ IsMapping(data)
    /\ k1 \in DOMAIN AsMapping(data).d
    /\ IsMapping(AsMapping(data).d[k1])
    /\ "score" \in DOMAIN AsMapping(AsMapping(data).d[k1]).d
ScoreField(data, k1) == AsMapping(AsMapping(data).d[k1]).d["score"]

\* C22: _extract_score gives the fallback 50 when a key of the path is
\* missing, when a value on the way is neither a mapping nor text that parses
\* to one, and when the value at the end does not convert to an integer; it
\* gives the integer value of the field when the field is a number
C22_ExtractScoreFallback ==
    Called =>
        \A k \in Agents :
            LET data == fusion_in[CHOOSE i \in 1..3 : AgentOrder[i] = k]
                score == fusion_out.component_scores[k]
            IN  IF ~Readable(data, PayloadKey[k]) THEN score = FALLBACK_SCORE
                ELSE LET field == ScoreField(data, PayloadKey[k])
                     IN  /\ field.t \in {"NoneType", "list", "dict", "float_nan"}
                                => score = FALLBACK_SCORE
                         /\ field.t = "str" => score = FALLBACK_SCORE
                         /\ field.t = "int" => score = field.v
                         /\ field.t = "float" =>
                                /\ 1000 * Abs(score) <= Abs(field.v)
                                /\ Abs(field.v) < 1000 * (Abs(score) + 1)

\* C22 witness: a research result given as JSON text with score 30, a
\* permitting payload that is a list and a design score 72.9 give 30, 50, 72
C22_Witness ==
    /\ Called
    /\ fusion_in[1] = JTextOf(Payload("analysis", JDict([score |-> JInt(30)])))
    /\ fusion_in[2] = Payload("permit_form", JList)
    /\ fusion_in[3] = Payload("design", JDict([score |-> JFloat(72900)]))
    /\ fusion_out.component_scores =
           [research |-> 30, permitting |-> 50, design |-> 72]

\* ---- claims on the scores of run_for_address (AsyncSpec) ----
\* run_for_address number i returned a bundle made from the three results
Scored(i) == site[i].pc = "returned" /\ Len(site[i].bundle.results) = 3
Breakdown(i) == site[i].bundle.summary[Len(site[i].bundle.summary)]

\* C23: run_for_address decides "GO" only when the research score, the
\* permit score and the design score are each at least 50 (500 tenths)
C23_AsyncGoNeedsEveryScore ==
    \A i \in DOMAIN site :
        (Scored(i) /\ site[i].bundle.decision = "GO") =>
            /\ Breakdown(i).research >= 500
            /\ Breakdown(i).permitting >= 500
            /\ Breakdown(i).design >= 500

\* C23 witness: one bundle is "GO" with the scores 90, 80, 98.4, and another
\* is "NO-GO" with the permit score 0 next to the scores 90 and 98.4
C23_Witness ==
    \E i, j \in DOMAIN site :
        /\ Scored(i) /\ site[i].bundle.decision = "GO"
        /\ Breakdown(i).research = 900 /\ Breakdown(i).permitting = 800
        /\ Breakdown(i).design = 984
        /\ Scored(j) /\ site[j].bundle.decision = "NO-GO"
        /\ Breakdown(j).research = 900 /\ Breakdown(j).permitting = 0
        /\ Breakdown(j).design = 984

\* C27: the warning line is the first line of the summary exactly when the
\* permit form is missing or the bill of materials is empty; with it the
\* decision is "NO-GO"; and the research score is 40 or 90, never 20
C27_WarningAndResearchScore ==
    \A i \in DOMAIN site :
        Scored(i) =>
            LET bundle == site[i].bundle
                warned == bundle.summary[1].line = "warning"
            IN  /\ warned <=> (\/ ~bundle.results[2].form.present
                               \/ bundle.results[3].bom = 0)
                /\ warned => bundle.decision = "NO-GO"
                /\ Breakdown(i).research \in {RESEARCH_UNFAVORABLE, RESEARCH_FAVORABLE}

\* ---- C24, C25 (CacheSpec) ----
\* what is stored after a request that failed
FallbackContents == {"newsapi_error", "fallback_outputs_with_error"}

C25_GeocodeDefaultNotCached ==
    CachedCall("geocode_address") =>
        LET out == last_call.out
            before == last_call.before
        IN  /\ ~out.raised
            /\ before.state = "valid" =>
                   (out.value = before.coords /\ ~out.requested /\ out.file = before)
            /\ before.state /= "valid" =>
                   /\ out.requested
                   /\ last_call.lookup.kind = "match" =>
                          /\ out.value = last_call.lookup.coords
                          /\ out.file = CacheValid(out.value)
                   /\ last_call.lookup.kind /= "match" =>
                          /\ out.value = Coords(PHOENIX_LAT, PHOENIX_LON)
                          /\ out.file = before

\* C25 witness: the request failed with no cache file, the Phoenix default
\* was returned and there is still no cache file
C25_Witness ==
    /\ CachedCall("geocode_address")
    /\ last_call.lookup = LookupError
    /\ last_call.before = CacheAbsent
    /\ last_call.out.value = Coords(PHOENIX_LAT, PHOENIX_LON)
    /\ geo_file = CacheAbsent
    /\ last_call.at = 3600

====
